---------------------------- MODULE Spec2Model ----------------------------
(***************************************************************************)
(* A model of use_rag: the delimited-record parser (use_rag/parser.py),    *)
(* the gleaning loop of GraphExtractor / ClaimExtractor                    *)
(* (use_rag/extractors.py), the deduplication that ends it, and the        *)
(* credential lookup of LLMClient (use_rag/client.py).                     *)
(*                                                                         *)
(* A Python str is a sequence of one-character strings, so that strip,     *)
(* split, replace, the regular expression and the case conversions are     *)
(* computed the way the code computes them.  None is the one-element       *)
(* sequence <<"None">>, which no str equals ("None" is not a character).   *)
(*                                                                         *)
(* The specifications share the variables.  Spec, GleanSpec and PairSpec   *)
(* run the loop: one extraction against every reply of the LLM, one        *)
(* against well-formed, empty and garbled replies and the answers to the   *)
(* yes/no question, and two extractions interleaved.  DedupSpec applies    *)
(* the deduplication of claims to every short list of a pool under every   *)
(* hash function.  ParseSpec, RoundTripSpec, ExampleSpec and FieldSpec     *)
(* apply the parsers: to every short blob of a table of chunks, to         *)
(* rendered lists of entities, to the example of the documentation, and    *)
(* to records of raw fields with whitespace.  ClientSpec constructs the    *)
(* client for every model name, api_key argument and environment.          *)
(***************************************************************************)
EXTENDS Integers, Sequences, FiniteSets, TLC

(***************************************************************************)
(* Characters and the str methods the code calls                           *)
(***************************************************************************)

None == <<"None">>

\* str.isspace() for the characters of the model: what str.strip() removes
\* and what the regular expression's \s matches.
Whitespace == {" ", "\n", "\t"}

LOWER == <<"a","b","c","d","e","f","g","h","i","j","k","l","m",
           "n","o","p","q","r","s","t","u","v","w","x","y","z">>

UPPER == <<"A","B","C","D","E","F","G","H","I","J","K","L","M",
           "N","O","P","Q","R","S","T","U","V","W","X","Y","Z">>

DIGITS == <<"0","1","2","3","4","5","6","7","8","9">>

UpperChar(c) ==
    IF \E i \in DOMAIN LOWER : LOWER[i] = c
    THEN UPPER[CHOOSE i \in DOMAIN LOWER : LOWER[i] = c]
    ELSE c

LowerChar(c) ==
    IF \E i \in DOMAIN UPPER : UPPER[i] = c
    THEN LOWER[CHOOSE i \in DOMAIN UPPER : UPPER[i] = c]
    ELSE c

\* str.upper() and str.lower()
upper(s) == [i \in 1..Len(s) |-> UpperChar(s[i])]

lower(s) == [i \in 1..Len(s) |-> LowerChar(s[i])]

\* s[:n]
Prefix(s, n) == SubSeq(s, 1, IF Len(s) < n THEN Len(s) ELSE n)

\* s[n:] (n counted from 0, as in Python)
Drop(s, n) == SubSeq(s, n + 1, Len(s))

\* str.startswith(p)
startswith(s, p) == Len(s) >= Len(p) /\ SubSeq(s, 1, Len(p)) = p

\* str.strip(chars): the longest prefix and suffix made of chars are removed.
StripChars(s, chars) ==
    LET keep == {i \in 1..Len(s) : s[i] \notin chars}
    IN  IF keep = {} THEN <<>>
        ELSE SubSeq(s, CHOOSE i \in keep : \A j \in keep : i <= j,
                       CHOOSE i \in keep : \A j \in keep : i >= j)

\* str.strip()
strip(s) == StripChars(s, Whitespace)

\* The start positions of the leftmost non-overlapping occurrences of pat in
\* s, in order: what str.replace and str.split both work on.
RECURSIVE MatchesFrom(_, _, _)
MatchesFrom(occ, width, from) ==
    LET rest == {i \in occ : i >= from}
        m    == CHOOSE i \in rest : \A j \in rest : i <= j
    IN  IF rest = {} THEN <<>>
        ELSE <<m>> \o MatchesFrom(occ, width, m + width)

Matches(s, pat) ==
    MatchesFrom({i \in 1..(Len(s) - Len(pat) + 1) : SubSeq(s, i, i + Len(pat) - 1) = pat},
                Len(pat), 1)

\* The pieces of s between those occurrences (always at least one piece).
Pieces(s, pat) ==
    LET m == Matches(s, pat)
    IN  [k \in 1..(Len(m) + 1) |->
            SubSeq(s, IF k = 1 THEN 1 ELSE m[k - 1] + Len(pat),
                      IF k = Len(m) + 1 THEN Len(s) ELSE m[k] - 1)]

RECURSIVE Join(_, _)
Join(pieces, sep) ==
    IF Len(pieces) = 0 THEN <<>>
    ELSE IF Len(pieces) = 1 THEN pieces[1]
    ELSE pieces[1] \o sep \o Join(Tail(pieces), sep)

\* str.replace(old, new): leftmost non-overlapping occurrences, in one pass.
replace(s, old, new) == Join(Pieces(s, old), new)

\* str.split(sep): always at least one piece; pieces may be empty.
split(s, sep) == Pieces(s, sep)

\* Mutant of the substitution: r"\s" for r"\s+", each whitespace character
\* becomes a space of its own.
CollapseEach(s) == [i \in 1..Len(s) |-> IF s[i] \in Whitespace THEN " " ELSE s[i]]

\* re.sub(r"\s+", " ", text): every maximal run of whitespace becomes " ".
CollapseSpace(s) ==
    LET pairs == [i \in 1..Len(s) |->
                    <<s[i], i < Len(s) /\ s[i + 1] \in Whitespace>>]
        ends  == SelectSeq(pairs, LAMBDA p : ~(p[1] \in Whitespace /\ p[2]))
    IN  [k \in 1..Len(ends) |->
            IF ends[k][1] \in Whitespace THEN " " ELSE ends[k][1]]

clean_str(text) ==
    IF text = <<>> THEN <<>>
    ELSE CollapseSpace(strip(text))


(***************************************************************************)
(* float(), the regular expression and the exceptions of use_rag/parser.py *)
(***************************************************************************)

RECORD_DELIMITER == <<"#", "#">>

TUPLE_DELIMITER == <<"<", "|", ">">>

COMPLETION_MARKER == <<"<", "|", "C", "O", "M", "P", "L", "E", "T", "E", "|", ">">>

ENTITY == <<"e", "n", "t", "i", "t", "y">>

RELATIONSHIP == <<"r", "e", "l", "a", "t", "i", "o", "n", "s", "h", "i", "p">>

NONE == <<"N", "O", "N", "E">>

IsDigits(s) == \A i \in 1..Len(s) : \E d \in DOMAIN DIGITS : DIGITS[d] = s[i]

DigitVal(c) == (CHOOSE d \in DOMAIN DIGITS : DIGITS[d] = c) - 1

RECURSIVE IntVal(_)
IntVal(ds) ==
    IF ds = <<>> THEN 0
    ELSE 10 * IntVal(SubSeq(ds, 1, Len(ds) - 1)) + DigitVal(ds[Len(ds)])

\* The fraction digits without their trailing zeros: 0.50 and 0.5 are one float.
FracDigits(ds) ==
    LET nz == {i \in 1..Len(ds) : ds[i] /= "0"}
    IN  IF nz = {} THEN <<>>
        ELSE SubSeq(ds, 1, CHOOSE i \in nz : \A j \in nz : i >= j)

\* A float is <<sign, whole part, fraction digits>>; 1.0 is <<"+", 1, <<>>>>.
Float(sign, whole, frac) ==
    <<IF whole = 0 /\ FracDigits(frac) = <<>> THEN "+" ELSE sign,
      whole, FracDigits(frac)>>

NaN == <<"nan">>

ValueError == <<"ValueError">>

\* float(str): surrounding whitespace, an optional sign, then "nan", "inf",
\* "infinity" in any case, or decimal digits with an optional point.  Every
\* other str raises ValueError.  (Exponents and digit-group underscores,
\* which float() also accepts, occur in no field of this model.)
float(s) ==
    LET t    == strip(s)
        sgn  == IF t /= <<>> /\ Head(t) \in {"+", "-"} THEN Head(t) ELSE "+"
        body == IF t /= <<>> /\ Head(t) \in {"+", "-"} THEN Tail(t) ELSE t
        dots == {i \in 1..Len(body) : body[i] = "."}
        dot  == CHOOSE i \in dots : TRUE
        ip   == IF dots = {} THEN body ELSE SubSeq(body, 1, dot - 1)
        fp   == IF dots = {} THEN <<>> ELSE SubSeq(body, dot + 1, Len(body))
    IN  IF lower(body) = <<"n", "a", "n">> THEN NaN
        ELSE IF lower(body) \in {<<"i", "n", "f">>,
                                 <<"i", "n", "f", "i", "n", "i", "t", "y">>}
        THEN <<sgn, "inf">>
        ELSE IF /\ Cardinality(dots) <= 1
                /\ IsDigits(ip) /\ IsDigits(fp)
                /\ Len(ip) + Len(fp) >= 1
        THEN Float(sgn, IntVal(ip), fp)
        ELSE ValueError

\* re.search(r"\((.+?)\)\s*$", record, re.DOTALL): group 1 of the leftmost
\* match, or None.  A match starts at a "(" at i, takes at least one
\* character lazily, and ends at a ")" at j that only whitespace follows.
re_search(record) ==
    LET ends   == {j \in 1..Len(record) :
                     /\ record[j] = ")"
                     /\ \A k \in (j + 1)..Len(record) : record[k] \in Whitespace}
        starts == {i \in 1..Len(record) :
                     /\ record[i] = "("
                     /\ \E j \in ends : j >= i + 2}
        i0     == CHOOSE i \in starts : \A k \in starts : i <= k
        js     == {j \in ends : j >= i0 + 2}
        j0     == CHOOSE j \in js : \A k \in js : j <= k
    IN  IF starts = {} THEN None ELSE SubSeq(record, i0 + 1, j0 - 1)

\* parts[k] (k counted from 0) raises IndexError past the end of the list.
IndexError == <<"IndexError">>

GetItem(parts, k) == IF k < Len(parts) THEN parts[k + 1] ELSE IndexError


(***************************************************************************)
(* use_rag/models and use_rag/parser.py: the two parsers                   *)
(*                                                                         *)
(* A parser returns [raised, ...lists]: raised is TRUE when an exception   *)
(* would leave the function instead of the lists.                          *)
(***************************************************************************)

Entity(name, type, description) ==
    [name |-> name, type |-> type, description |-> description]

Relationship(source, target, description, weight) ==
    [source |-> source, target |-> target,
     description |-> description, weight |-> weight]

Claim(subject, object, type, status, start_date, end_date, description, source_text) ==
    [subject |-> subject, object |-> object, type |-> type, status |-> status,
     start_date |-> start_date, end_date |-> end_date,
     description |-> description, source_text |-> source_text]

\* The default weight of the dataclass and of the parser: 1.0
DefaultWeight == <<"+", 1, <<>>>>

\* Mutant of the splitting: the completion marker is left in the text.
RecordsWithMarker(llm_output) == split(strip(llm_output), RECORD_DELIMITER)

\* text = llm_output.replace(COMPLETION_MARKER, "").strip()
\* records = text.split(RECORD_DELIMITER)
Records(llm_output) ==
    split(strip(replace(llm_output, COMPLETION_MARKER, <<>>)), RECORD_DELIMITER)

\* Mutant of the record type: lower() is forgotten.
RecordTypeCaseSensitive(parts) == StripChars(clean_str(parts[1]), {"\"", "'"})

\* record_type = clean_str(parts[0]).lower().strip('"\'')
RecordType(parts) == StripChars(lower(clean_str(parts[1])), {"\"", "'"})

\* Mutant of the entity test: three fields are enough.
IsEntityRecordOfThree(parts) == RecordType(parts) = ENTITY /\ Len(parts) >= 3

\* if record_type == "entity" and len(parts) >= 4
IsEntityRecord(parts) == RecordType(parts) = ENTITY /\ Len(parts) >= 4

\* elif record_type == "relationship" and len(parts) >= 4
IsRelationshipRecord(parts) == RecordType(parts) = RELATIONSHIP /\ Len(parts) >= 4

\* Mutant of the weight: the ValueError is not caught.
WeightOrValueError(parsed_weight) == parsed_weight

\* try: weight = float(...)  except ValueError: weight = 1.0
WeightOr(parsed_weight) ==
    IF parsed_weight = ValueError THEN DefaultWeight ELSE parsed_weight

\* weight = 1.0; if len(parts) >= 5: weight = float(clean_str(parts[4]))
Weight(parts) ==
    IF Len(parts) >= 5 THEN WeightOr(float(clean_str(GetItem(parts, 4))))
    ELSE DefaultWeight

NoGraph == [raised |-> FALSE, entities |-> <<>>, relationships |-> <<>>]

\* The construction of the Entity or the Relationship raises IndexError if
\* it reads a field the record does not have.
GraphFields(parts) ==
    IF Len(parts) < 2 THEN NoGraph
    ELSE IF IsEntityRecord(parts)
    THEN IF \E k \in 1..3 : GetItem(parts, k) = IndexError
         THEN [NoGraph EXCEPT !.raised = TRUE]
         ELSE [NoGraph EXCEPT !.entities =
                  <<Entity(clean_str(GetItem(parts, 1)), clean_str(GetItem(parts, 2)),
                           clean_str(GetItem(parts, 3)))>>]
    ELSE IF IsRelationshipRecord(parts)
    THEN IF \E k \in 1..3 : GetItem(parts, k) = IndexError
         THEN [NoGraph EXCEPT !.raised = TRUE]
         ELSE [NoGraph EXCEPT !.relationships =
                  <<Relationship(clean_str(GetItem(parts, 1)), clean_str(GetItem(parts, 2)),
                                 clean_str(GetItem(parts, 3)), Weight(parts))>>]
    ELSE NoGraph

\* if not match: continue;  parts = match.group(1).split(TUPLE_DELIMITER)
GraphMatch(content) ==
    IF content = None THEN NoGraph
    ELSE GraphFields(split(content, TUPLE_DELIMITER))

\* One turn of the for loop of parse_graph_output, record being stripped.
GraphStripped(record) ==
    IF record = <<>> THEN NoGraph ELSE GraphMatch(re_search(record))

GraphRecord(rec) == GraphStripped(strip(rec))

\* Mutant of the appending: an entity whose name is already there is left out.
GraphAppendUnique(acc, one) ==
    [raised        |-> one.raised,
     entities      |-> IF \E i \in 1..Len(acc.entities), j \in 1..Len(one.entities) :
                            acc.entities[i].name = one.entities[j].name
                       THEN acc.entities ELSE acc.entities \o one.entities,
     relationships |-> acc.relationships \o one.relationships]

\* entities.append(...) / relationships.append(...)
GraphAppend(acc, one) ==
    [raised        |-> one.raised,
     entities      |-> acc.entities \o one.entities,
     relationships |-> acc.relationships \o one.relationships]

RECURSIVE GraphLoop(_, _)
GraphLoop(records, acc) ==
    IF records = <<>> \/ acc.raised THEN acc
    ELSE GraphLoop(Tail(records), GraphAppend(acc, GraphRecord(Head(records))))

parse_graph_output(llm_output) == GraphLoop(Records(llm_output), NoGraph)

\* Mutant of the claim test: seven fields are enough.
IsClaimRecordOfSeven(parts) == Len(parts) >= 7

\* if len(parts) < 8: continue
IsClaimRecord(parts) == Len(parts) >= 8

\* Mutant of the NONE test: upper() is forgotten.
NoneIfCaseSensitive(obj) == IF obj = NONE THEN None ELSE obj

\* obj = clean_str(parts[i]); if obj.upper() == "NONE": obj = None
NoneIf(obj) == IF upper(obj) = NONE THEN None ELSE obj

NoneOr(field) == NoneIf(clean_str(field))

NoClaims == [raised |-> FALSE, claims |-> <<>>]

ClaimFields(parts) ==
    IF ~IsClaimRecord(parts) THEN NoClaims
    ELSE IF \E k \in 0..7 : GetItem(parts, k) = IndexError
    THEN [NoClaims EXCEPT !.raised = TRUE]
    ELSE [NoClaims EXCEPT !.claims =
             <<Claim(clean_str(GetItem(parts, 0)), NoneOr(GetItem(parts, 1)),
                     clean_str(GetItem(parts, 2)), clean_str(GetItem(parts, 3)),
                     NoneOr(GetItem(parts, 4)), NoneOr(GetItem(parts, 5)),
                     clean_str(GetItem(parts, 6)), clean_str(GetItem(parts, 7)))>>]

ClaimMatch(content) ==
    IF content = None THEN NoClaims
    ELSE ClaimFields(split(content, TUPLE_DELIMITER))

\* One turn of the for loop of parse_claims_output, record being stripped.
ClaimStripped(record) ==
    IF record = <<>> THEN NoClaims ELSE ClaimMatch(re_search(record))

ClaimRecord(rec) == ClaimStripped(strip(rec))

ClaimAppend(acc, one) ==
    [raised |-> one.raised, claims |-> acc.claims \o one.claims]

RECURSIVE ClaimsLoop(_, _)
ClaimsLoop(records, acc) ==
    IF records = <<>> \/ acc.raised THEN acc
    ELSE ClaimsLoop(Tail(records), ClaimAppend(acc, ClaimRecord(Head(records))))

parse_claims_output(llm_output) == ClaimsLoop(Records(llm_output), NoClaims)


(***************************************************************************)
(* use_rag/extractors.py: deduplication                                    *)
(***************************************************************************)

\* c.description[:50]
DescPrefixLen == 50

\* for e in entities: if e.name not in seen_entities: seen_entities[e.name] = e
\* A dict keeps its keys in insertion order, so list(seen.values()) is the
\* first occurrences in the order they were met.
RECURSIVE DedupEntitiesFrom(_, _, _)
DedupEntitiesFrom(entities, seen_keys, seen_values) ==
    IF entities = <<>> THEN seen_values
    ELSE IF Head(entities).name \in seen_keys
         THEN DedupEntitiesFrom(Tail(entities), seen_keys, seen_values)
         ELSE DedupEntitiesFrom(Tail(entities),
                                seen_keys \cup {Head(entities).name},
                                Append(seen_values, Head(entities)))

DedupEntities(entities) == DedupEntitiesFrom(entities, {}, <<>>)

\* Mutant of the relationship key: the pair loses its order.
RelationshipKeyUnordered(r) == {r.source, r.target}

\* key = (r.source, r.target)
RelationshipKey(r) == <<r.source, r.target>>

RECURSIVE DedupRelationshipsFrom(_, _, _)
DedupRelationshipsFrom(rels, seen_keys, seen_values) ==
    IF rels = <<>> THEN seen_values
    ELSE IF RelationshipKey(Head(rels)) \in seen_keys
         THEN DedupRelationshipsFrom(Tail(rels), seen_keys, seen_values)
         ELSE DedupRelationshipsFrom(Tail(rels),
                                     seen_keys \cup {RelationshipKey(Head(rels))},
                                     Append(seen_values, Head(rels)))

DedupRelationships(rels) == DedupRelationshipsFrom(rels, {}, <<>>)

\* Mutant of the claim key: the type is left out.
ClaimKeyNoType(c, h) == <<c.subject, h[Prefix(c.description, DescPrefixLen)]>>

\* key = (c.subject, c.type, hash(c.description[:50])); h is the process's
\* hash function, a function of the str alone.
ClaimKey(c, h) == <<c.subject, c.type, h[Prefix(c.description, DescPrefixLen)]>>

RECURSIVE DedupClaimsFrom(_, _, _, _)
DedupClaimsFrom(claims, h, seen_keys, seen_values) ==
    IF claims = <<>> THEN seen_values
    ELSE IF ClaimKey(Head(claims), h) \in seen_keys
         THEN DedupClaimsFrom(Tail(claims), h, seen_keys, seen_values)
         ELSE DedupClaimsFrom(Tail(claims), h,
                              seen_keys \cup {ClaimKey(Head(claims), h)},
                              Append(seen_values, Head(claims)))

DedupClaims(claims, h) == DedupClaimsFrom(claims, h, {}, <<>>)


(***************************************************************************)
(* The inputs of the gleaning loop: the extractions, the texts and the     *)
(* replies the LLM may give to any chat call                               *)
(***************************************************************************)

\* The extract() calls of the model, each on its own extractor and client.
Extractors == {1, 2}

\* The largest positive max_gleanings of the model.
MaxGleanings == 2

\* With max_gleanings < 0 the loop is followed for this many iterations.
MaxIter == 2

GraphKind == "graph"

ClaimsKind == "claims"

Quoted(s) == <<"\"">> \o s \o <<"\"">>

\* One record of the wire format: (field<|>field<|>...)
Tuple(fields) == <<"(">> \o Join(fields, TUPLE_DELIMITER) \o <<")">>

EntityText(name, type, description) ==
    Tuple(<<Quoted(ENTITY), name, type, description>>)

RelationshipText(source, target, description, weight) ==
    Tuple(<<Quoted(RELATIONSHIP), source, target, description, weight>>)

ClaimText(subject, object, type, description) ==
    Tuple(<<subject, object, type, <<"T", "R", "U", "E">>, NONE, NONE,
            description, <<"s", "r", "c">>>>)

Yes == <<"Y", "e", "s">>

\* Two replies that start with "N" once stripped and upper-cased.
LowerNo == <<"n", "o", " ">>

IndentedNo == <<" ", "\n", "N", "o", "t", " ">>

GraphReplies ==
    { EntityText(<<"A">>, <<"T">>, <<"d">>) \o RECORD_DELIMITER
         \o RelationshipText(<<"A">>, <<"B">>, <<"r">>, <<"9">>),
      EntityText(<<"A">>, <<"U">>, <<"e">>) \o RECORD_DELIMITER
         \o EntityText(<<"a">>, <<"T">>, <<"d">>) \o RECORD_DELIMITER
         \o RelationshipText(<<"B">>, <<"A">>, <<"r">>, <<"x">>) \o RECORD_DELIMITER
         \o RelationshipText(<<"A">>, <<"B">>, <<"s">>, <<"2">>),
      LowerNo \o EntityText(<<"Z">>, <<"T">>, <<"d">>),
      Yes }

ClaimsReplies ==
    { ClaimText(<<"S">>, <<"O">>, <<"T">>, <<"d">>),
      ClaimText(<<"S">>, <<"P">>, <<"T">>, <<"d">>) \o RECORD_DELIMITER
         \o ClaimText(<<"S">>, <<"O">>, <<"U">>, <<"d">>) \o RECORD_DELIMITER
         \o ClaimText(<<"s">>, NONE, <<"T">>, <<"d">>),
      IndentedNo \o ClaimText(<<"Z">>, <<"O">>, <<"T">>, <<"d">>),
      Yes }

Replies(k) == IF k = GraphKind THEN GraphReplies ELSE ClaimsReplies

\* generate_graph_prompt / generate_claims_prompt: the template of the kind
\* filled with the text.
generate_prompt(k, t) ==
    IF k = GraphKind THEN <<"GRAPH_EXTRACTION_PROMPT", t>>
                     ELSE <<"EXTRACT_CLAIMS_PROMPT", t>>

CONTINUE_PROMPT(k) ==
    IF k = GraphKind THEN <<"GRAPH_CONTINUE_PROMPT">> ELSE <<"CLAIMS_CONTINUE_PROMPT">>

LOOP_PROMPT(k) ==
    IF k = GraphKind THEN <<"GRAPH_LOOP_PROMPT">> ELSE <<"CLAIMS_LOOP_PROMPT">>

User(content) == [role |-> "user", content |-> content]

Assistant(content) == [role |-> "assistant", content |-> content]


(***************************************************************************)
(* State                                                                   *)
(***************************************************************************)

VARIABLES
    kind,            \* per extraction: GraphExtractor or ClaimExtractor
    max_gleanings,   \* per extraction: self.max_gleanings
    text,            \* per extraction: the argument of extract()
    pc,              \* per extraction: "idle", the chat call it waits for
                     \*   ("initial", "ask", "check"), "done" or "raised"
    messages,        \* per extraction: the local list messages
    iteration,       \* per extraction: the local iteration
    entities,        \* per extraction: the local list entities
    relationships,   \* per extraction: the local list relationships
    claims,          \* per extraction: the local list claims
    ncalls,          \* per extraction: how many times client.chat was called
    sent,            \* per extraction: the messages given to the last chat call
    hashfn,          \* hash() of this process on the description prefixes
    llm_output,      \* the argument of the parser under test
    chunks,          \* the test vectors llm_output was rendered from
    separator,       \* how the chunks were joined
    parsed,          \* "no", or which parser has run: "graph", "claims"
    graph_out,       \* what parse_graph_output returned
    claims_out,      \* what parse_claims_output returned
    accumulated,     \* the claims given to the deduplication under test
    deduped,         \* whether the deduplication returned, and what
    model,           \* the model argument of LLMClient()
    api_key,         \* the api_key argument of LLMClient()
    environ,         \* os.environ on the variables of PROVIDER_CONFIG
    client           \* the LLMClient: not yet made, constructed, or raised

loopVars == <<kind, max_gleanings, text, pc, messages, iteration, entities,
              relationships, claims, ncalls, sent>>

parserVars == <<llm_output, chunks, separator, parsed, graph_out, claims_out>>

dedupVars == <<accumulated, deduped>>

clientVars == <<model, api_key, environ, client>>

vars == <<loopVars, hashfn, parserVars, dedupVars, clientVars>>

(***************************************************************************)
(* use_rag/client.py: the provider table, the credential lookup and the    *)
(* construction of LLMClient                                               *)
(***************************************************************************)

OPENAI == <<"o", "p", "e", "n", "a", "i">>

ANTHROPIC == <<"a", "n", "t", "h", "r", "o", "p", "i", "c">>

GEMINI == <<"g", "e", "m", "i", "n", "i">>

\* PROVIDER_CONFIG, in the order of the dict
PROVIDER_CONFIG ==
    << [provider |-> OPENAI,
        prefixes |-> <<<<"g", "p", "t", "-">>, <<"o", "1", "-">>, <<"o", "3", "-">>>>,
        env_var  |-> "OPENAI_API_KEY"],
       [provider |-> ANTHROPIC,
        prefixes |-> <<<<"c", "l", "a", "u", "d", "e", "-">>>>,
        env_var  |-> "ANTHROPIC_API_KEY"],
       [provider |-> GEMINI,
        prefixes |-> <<<<"g", "e", "m", "i", "n", "i", "/">>, <<"g", "e", "m", "i", "n", "i", "-">>>>,
        env_var  |-> "GEMINI_API_KEY"] >>

EnvVars == {PROVIDER_CONFIG[i].env_var : i \in DOMAIN PROVIDER_CONFIG}

\* The first element of a non-empty set of positions.
First(positions) == CHOOSE i \in positions : \A j \in positions : i <= j

\* The truth value of a str or None: None and "" are false.
Truthy(v) == v /= None /\ v /= <<>>

\* Mutant of the choice of the credential: only None counts as no api_key.
OrUnlessNone(a, b) == IF a /= None THEN a ELSE b

\* a or b
Or(a, b) == IF Truthy(a) THEN a ELSE b

\* for provider, config in PROVIDER_CONFIG.items(): for prefix in ...:
\*     if model_lower.startswith(prefix): return provider
detect_provider(name) ==
    LET hits == {i \in DOMAIN PROVIDER_CONFIG :
                    \E j \in DOMAIN PROVIDER_CONFIG[i].prefixes :
                        startswith(lower(name), PROVIDER_CONFIG[i].prefixes[j])}
    IN  IF hits = {} THEN None ELSE PROVIDER_CONFIG[First(hits)].provider

\* The position in PROVIDER_CONFIG of a provider that is in it.
ConfigOf(provider) ==
    CHOOSE i \in DOMAIN PROVIDER_CONFIG : PROVIDER_CONFIG[i].provider = provider

\* Mutant of the lookup: a provider whose variable gives nothing falls back
\* on the variables of the others.
GetApiKeyWithFallback(provider, env) ==
    LET set == {i \in DOMAIN PROVIDER_CONFIG : Truthy(env[PROVIDER_CONFIG[i].env_var])}
    IN  IF /\ Truthy(provider)
           /\ \E i \in DOMAIN PROVIDER_CONFIG : PROVIDER_CONFIG[i].provider = provider
           /\ Truthy(env[PROVIDER_CONFIG[ConfigOf(provider)].env_var])
        THEN env[PROVIDER_CONFIG[ConfigOf(provider)].env_var]
        ELSE IF set = {} THEN None
        ELSE env[PROVIDER_CONFIG[First(set)].env_var]

\* if provider and provider in PROVIDER_CONFIG: return os.environ.get(env_var)
\* for config in PROVIDER_CONFIG.values(): key = ...; if key: return key
\* env is os.environ; a variable that is not set is None in it.
get_api_key_for_provider(provider, env) ==
    LET set == {i \in DOMAIN PROVIDER_CONFIG : Truthy(env[PROVIDER_CONFIG[i].env_var])}
    IN  IF /\ Truthy(provider)
           /\ \E i \in DOMAIN PROVIDER_CONFIG : PROVIDER_CONFIG[i].provider = provider
        THEN env[PROVIDER_CONFIG[ConfigOf(provider)].env_var]
        ELSE IF set = {} THEN None
        ELSE env[PROVIDER_CONFIG[First(set)].env_var]

\* Mutant of the test of the key: only None is refused.
HasKeyUnlessNone(key) == key /= None

\* if not self.api_key: raise ValueError(...)
HasKey(key) == Truthy(key)

\* No LLMClient() was called yet.
NoClient == [state |-> "none", model |-> None, provider |-> None, api_key |-> None]

\* LLMClient.__init__ with the key it resolved: the object, or ValueError
\* raised and no object (the fields are what __init__ had assigned).
ClientWith(name, provider, key) ==
    [state    |-> IF HasKey(key) THEN "constructed" ELSE "raised",
     model    |-> name, provider |-> provider, api_key |-> key]

\* self.provider = detect_provider(model)
\* self.api_key = api_key or get_api_key_for_provider(self.provider)
LLMClient(name, key, env) ==
    ClientWith(name, detect_provider(name),
               Or(key, get_api_key_for_provider(detect_provider(name), env)))

\* The client the extractors of Spec are given: LLMClient("gpt-5", "k").
ClientReady ==
    /\ model = <<"g", "p", "t", "-", "5">>
    /\ api_key = <<"k">>
    /\ environ = [v \in EnvVars |-> None]
    /\ client = [state |-> "constructed", model |-> <<"g", "p", "t", "-", "5">>,
                 provider |-> OPENAI, api_key |-> <<"k">>]


(***************************************************************************)
(* use_rag/extractors.py: GraphExtractor.extract and ClaimExtractor.extract*)
(*                                                                         *)
(* One action runs extract from the return of one client.chat call to the  *)
(* next call of client.chat, or to the return of extract.                  *)
(***************************************************************************)

\* Mutants of the loop condition: one iteration too many; no unlimited mode.
LoopConditionOffByOne(mg, it) == mg < 0 \/ it <= mg

LoopConditionBounded(mg, it) == it < mg

\* while self.max_gleanings < 0 or iteration < self.max_gleanings
LoopCondition(mg, it) == mg < 0 \/ it < mg

\* Mutant of the test of the GLEAN_CHECK reply: strip() is forgotten.
SaysNoMoreUnstripped(loop_response) == startswith(upper(loop_response), <<"N">>)

\* Mutant of the test of the GLEAN_CHECK reply: upper() is forgotten.
SaysNoMoreCaseSensitive(loop_response) == startswith(strip(loop_response), <<"N">>)

\* if loop_response.strip().upper().startswith("N"): break
SaysNoMore(loop_response) == startswith(upper(strip(loop_response)), <<"N">>)

GraphReply(g) ==
    [raised |-> g.raised, entities |-> g.entities,
     relationships |-> g.relationships, claims |-> <<>>]

ClaimsReply(c) ==
    [raised |-> c.raised, entities |-> <<>>,
     relationships |-> <<>>, claims |-> c.claims]

\* parse_graph_output(response) or parse_claims_output(response), by kind
ParseReply(k, response) ==
    IF k = GraphKind THEN GraphReply(parse_graph_output(response))
                     ELSE ClaimsReply(parse_claims_output(response))

\* Mutant of the call: only the last turn is sent, not the history.
ChatLastTurnOnly(x, msgs) ==
    /\ ncalls' = [ncalls EXCEPT ![x] = @ + 1]
    /\ sent' = [sent EXCEPT ![x] = <<msgs[Len(msgs)]>>]

\* self.client.chat(messages): the call is made with the list as it is now.
Chat(x, msgs) ==
    /\ ncalls' = [ncalls EXCEPT ![x] = @ + 1]
    /\ sent' = [sent EXCEPT ![x] = msgs]

\* The lines after the loop: deduplicate and return.
Return(x, msgs, it, es, rs, cs) ==
    /\ messages' = [messages EXCEPT ![x] = msgs]
    /\ iteration' = [iteration EXCEPT ![x] = it]
    /\ entities' = [entities EXCEPT ![x] = DedupEntities(es)]
    /\ relationships' = [relationships EXCEPT ![x] = DedupRelationships(rs)]
    /\ claims' = [claims EXCEPT ![x] = DedupClaims(cs, hashfn)]
    /\ pc' = [pc EXCEPT ![x] = "done"]
    /\ UNCHANGED <<ncalls, sent>>

\* The head of the while loop and, when it is entered, the body up to the
\* GLEAN_ASK call.  An extraction with max_gleanings < 0 is followed for
\* MaxIter iterations only.
LoopHead(x, msgs, it, es, rs, cs) ==
    IF LoopCondition(max_gleanings[x], it)
    THEN /\ max_gleanings[x] < 0 => it < MaxIter
         /\ iteration' = [iteration EXCEPT ![x] = it + 1]
         /\ messages' = [messages EXCEPT ![x] = Append(msgs, User(CONTINUE_PROMPT(kind[x])))]
         /\ Chat(x, Append(msgs, User(CONTINUE_PROMPT(kind[x]))))
         /\ entities' = [entities EXCEPT ![x] = es]
         /\ relationships' = [relationships EXCEPT ![x] = rs]
         /\ claims' = [claims EXCEPT ![x] = cs]
         /\ pc' = [pc EXCEPT ![x] = "ask"]
    ELSE Return(x, msgs, it, es, rs, cs)

\* An exception leaves extract: nothing is returned.
Raise(x, msgs) ==
    /\ messages' = [messages EXCEPT ![x] = msgs]
    /\ pc' = [pc EXCEPT ![x] = "raised"]
    /\ UNCHANGED <<iteration, entities, relationships, claims, ncalls, sent>>

\* extract() is called: the prompt is the sole user turn of the first call.
Extract(x) ==
    /\ client.state = "constructed"
    /\ pc[x] = "idle"
    /\ messages' = [messages EXCEPT ![x] = <<User(generate_prompt(kind[x], text[x]))>>]
    /\ Chat(x, <<User(generate_prompt(kind[x], text[x]))>>)
    /\ pc' = [pc EXCEPT ![x] = "initial"]
    /\ UNCHANGED <<kind, max_gleanings, text, iteration, entities, relationships,
                   claims, hashfn, parserVars, dedupVars,
                   clientVars>>

\* Mutant of the lines after the first parse: a reply without records gives
\* up, extract returns at once.
InitialParsedOrGiveUp(x, msgs, got) ==
    IF got.raised THEN Raise(x, msgs)
    ELSE IF got.entities \o got.relationships \o got.claims = <<>>
         THEN Return(x, msgs, 0, <<>>, <<>>, <<>>)
         ELSE LoopHead(x, msgs, 0, got.entities, got.relationships, got.claims)

\* entities, relationships = parse_graph_output(response); iteration = 0
InitialParsed(x, msgs, got) ==
    IF got.raised THEN Raise(x, msgs)
    ELSE LoopHead(x, msgs, 0, got.entities, got.relationships, got.claims)

\* INITIAL: the first reply arrives; it is appended and parsed.
Initial(x, response) ==
    /\ pc[x] = "initial"
    /\ InitialParsed(x, Append(messages[x], Assistant(response)),
                     ParseReply(kind[x], response))
    /\ UNCHANGED <<kind, max_gleanings, text, hashfn, parserVars, dedupVars,
                   clientVars>>

\* Mutant of the loop body: on the iteration that max_gleanings makes the
\* last, the loop prompt is not sent and extract returns.
GleanAskParsedNoLastCheck(x, msgs, got) ==
    IF got.raised THEN Raise(x, msgs)
    ELSE IF iteration[x] = max_gleanings[x]
         THEN Return(x, msgs, iteration[x], entities[x] \o got.entities,
                     relationships[x] \o got.relationships, claims[x] \o got.claims)
         ELSE /\ messages' = [messages EXCEPT ![x] = Append(msgs, User(LOOP_PROMPT(kind[x])))]
              /\ Chat(x, Append(msgs, User(LOOP_PROMPT(kind[x]))))
              /\ entities' = [entities EXCEPT ![x] = @ \o got.entities]
              /\ relationships' = [relationships EXCEPT ![x] = @ \o got.relationships]
              /\ claims' = [claims EXCEPT ![x] = @ \o got.claims]
              /\ pc' = [pc EXCEPT ![x] = "check"]
              /\ UNCHANGED iteration

\* Mutant of the loop body: the lists are kept where every extraction finds
\* them, and the new records extend them for all.
GleanAskParsedShared(x, msgs, got) ==
    IF got.raised THEN Raise(x, msgs)
    ELSE /\ messages' = [messages EXCEPT ![x] = Append(msgs, User(LOOP_PROMPT(kind[x])))]
         /\ Chat(x, Append(msgs, User(LOOP_PROMPT(kind[x]))))
         /\ entities' = [y \in Extractors |-> entities[y] \o got.entities]
         /\ relationships' = [y \in Extractors |-> relationships[y] \o got.relationships]
         /\ claims' = [y \in Extractors |-> claims[y] \o got.claims]
         /\ pc' = [pc EXCEPT ![x] = "check"]
         /\ UNCHANGED iteration

\* entities.extend(new_entities); ...; messages.append(LOOP_PROMPT); chat
GleanAskParsed(x, msgs, got) ==
    IF got.raised THEN Raise(x, msgs)
    ELSE /\ messages' = [messages EXCEPT ![x] = Append(msgs, User(LOOP_PROMPT(kind[x])))]
         /\ Chat(x, Append(msgs, User(LOOP_PROMPT(kind[x]))))
         /\ entities' = [entities EXCEPT ![x] = @ \o got.entities]
         /\ relationships' = [relationships EXCEPT ![x] = @ \o got.relationships]
         /\ claims' = [claims EXCEPT ![x] = @ \o got.claims]
         /\ pc' = [pc EXCEPT ![x] = "check"]
         /\ UNCHANGED iteration

\* GLEAN_ASK: the reply to the continue prompt arrives; it is appended and
\* parsed, its records extend the lists, and the loop prompt is sent.
GleanAsk(x, continue_response) ==
    /\ pc[x] = "ask"
    /\ GleanAskParsed(x, Append(messages[x], Assistant(continue_response)),
                      ParseReply(kind[x], continue_response))
    /\ UNCHANGED <<kind, max_gleanings, text, hashfn, parserVars, dedupVars,
                   clientVars>>

\* Mutant of the end of the loop body: the GLEAN_CHECK reply is parsed too,
\* and its records extend the lists.
GleanCheckParsed(x, msgs, loop_response) ==
    IF SaysNoMore(loop_response)
    THEN Return(x, msgs, iteration[x],
                entities[x] \o ParseReply(kind[x], loop_response).entities,
                relationships[x] \o ParseReply(kind[x], loop_response).relationships,
                claims[x] \o ParseReply(kind[x], loop_response).claims)
    ELSE LoopHead(x, msgs, iteration[x],
                  entities[x] \o ParseReply(kind[x], loop_response).entities,
                  relationships[x] \o ParseReply(kind[x], loop_response).relationships,
                  claims[x] \o ParseReply(kind[x], loop_response).claims)

\* if loop_response.strip().upper().startswith("N"): break
GleanCheckAppended(x, msgs, loop_response) ==
    IF SaysNoMore(loop_response)
    THEN Return(x, msgs, iteration[x], entities[x], relationships[x], claims[x])
    ELSE LoopHead(x, msgs, iteration[x], entities[x], relationships[x], claims[x])

\* GLEAN_CHECK: the reply to the loop prompt arrives; it is appended, and
\* the loop is left if it says no more, or else goes back to its head.
GleanCheck(x, loop_response) ==
    /\ pc[x] = "check"
    /\ GleanCheckAppended(x, Append(messages[x], Assistant(loop_response)), loop_response)
    /\ UNCHANGED <<kind, max_gleanings, text, hashfn, parserVars, dedupVars,
                   clientVars>>

(***************************************************************************)
(* Spec: one extraction, of either kind, with every max_gleanings from -2  *)
(* to MaxGleanings and every reply to every call                           *)
(***************************************************************************)

GleaningsRange == {0 - 2, 0 - 1} \cup (0..MaxGleanings)

\* The descriptions of the claims in ClaimsReplies.
LoopDescriptions == {<<"d">>}

HashDomain(descriptions) == {Prefix(d, DescPrefixLen) : d \in descriptions}

ParserIdle ==
    /\ llm_output = <<>>
    /\ chunks = <<>>
    /\ separator = <<>>
    /\ parsed = "no"
    /\ graph_out = NoGraph
    /\ claims_out = NoClaims

\* The deduplication under test has not returned.
NotDeduped == [returned |-> FALSE, claims |-> <<>>]

DedupIdle ==
    /\ accumulated = <<>>
    /\ deduped = NotDeduped

\* Extraction 1 is configured freely; extraction 2 stays idle.  The replies
\* carry one description, so every hash function gives the same equalities
\* and one of them stands for all.
Init ==
    /\ kind \in {[x \in Extractors |-> IF x = 1 THEN k ELSE GraphKind] :
                    k \in {GraphKind, ClaimsKind}}
    /\ max_gleanings \in {[x \in Extractors |-> IF x = 1 THEN g ELSE 0] :
                             g \in GleaningsRange}
    /\ text = [x \in Extractors |-> IF x = 1 THEN "text 1" ELSE "text 2"]
    /\ pc = [x \in Extractors |-> "idle"]
    /\ messages = [x \in Extractors |-> <<>>]
    /\ iteration = [x \in Extractors |-> 0]
    /\ entities = [x \in Extractors |-> <<>>]
    /\ relationships = [x \in Extractors |-> <<>>]
    /\ claims = [x \in Extractors |-> <<>>]
    /\ ncalls = [x \in Extractors |-> 0]
    /\ sent = [x \in Extractors |-> <<>>]
    /\ hashfn = [p \in HashDomain(LoopDescriptions) |-> 0]
    /\ ParserIdle
    /\ DedupIdle
    /\ ClientReady

Step(x) ==
    \/ Extract(x)
    \/ \E r \in Replies(kind[x]) : Initial(x, r)
    \/ \E r \in Replies(kind[x]) : GleanAsk(x, r)
    \/ \E r \in Replies(kind[x]) : GleanCheck(x, r)

Next == Step(1)

Spec == Init /\ [][Next]_vars


(***************************************************************************)
(* What the claims are stated with                                         *)
(***************************************************************************)

\* The positions in messages[x] of the replies to the loop prompt (the
\* GLEAN_CHECK replies) and to the continue prompt (the GLEAN_ASK replies).
RepliesTo(x, prompt) ==
    {p \in 2..Len(messages[x]) :
        /\ messages[x][p].role = "assistant"
        /\ messages[x][p - 1] = User(prompt)}

CheckReplies(x) == RepliesTo(x, LOOP_PROMPT(kind[x]))

AskReplies(x) == RepliesTo(x, CONTINUE_PROMPT(kind[x]))

\* The first character of the reply that is not whitespace is "N" or "n".
FirstLetterIsN(reply) ==
    \E i \in 1..Len(reply) :
        /\ reply[i] \in {"N", "n"}
        /\ \A j \in 1..(i - 1) : reply[j] \in Whitespace

NoMoreReplies(x) ==
    {p \in CheckReplies(x) : FirstLetterIsN(messages[x][p].content)}

Instructions(x) == {CONTINUE_PROMPT(kind[x]), LOOP_PROMPT(kind[x])}

\* What extract returned: the deduplicated records of one reply.
ReturnedFrom(x, reply) ==
    IF kind[x] = GraphKind
    THEN /\ entities[x] = DedupEntities(parse_graph_output(reply).entities)
         /\ relationships[x] =
               DedupRelationships(parse_graph_output(reply).relationships)
    ELSE claims[x] = DedupClaims(parse_claims_output(reply).claims, hashfn)

\* C1: with max_gleanings = 0 an extraction makes one chat call, whose
\* history is the extraction prompt alone; it never waits for a GLEAN_ASK
\* or GLEAN_CHECK reply, no continue or loop instruction is in its history
\* or in what it sent, and what it returns is the deduplicated records of
\* the one reply.
C1_NoGleaning ==
    \A x \in Extractors :
        max_gleanings[x] = 0 =>
            /\ ncalls[x] <= 1
            /\ pc[x] \in {"idle", "initial", "done"}
            /\ \A p \in 1..Len(messages[x]) :
                  messages[x][p].content \notin Instructions(x)
            /\ \A p \in 1..Len(sent[x]) :
                  sent[x][p].content \notin Instructions(x)
            /\ pc[x] = "done" =>
                  /\ ncalls[x] = 1
                  /\ sent[x] = <<User(generate_prompt(kind[x], text[x]))>>
                  /\ Len(messages[x]) = 2
                  /\ messages[x][1] = User(generate_prompt(kind[x], text[x]))
                  /\ messages[x][2].role = "assistant"
                  /\ ReturnedFrom(x, messages[x][2].content)

C1_Witness ==
    \E x \in Extractors :
        /\ max_gleanings[x] = 0
        /\ pc[x] = "done"
        /\ ncalls[x] = 1
        /\ Len(entities[x]) = 2
        /\ Len(relationships[x]) = 2

\* C2: with max_gleanings = N > 0 an extraction runs at most N iterations
\* and makes at most 1 + 2N chat calls, whatever the replies; and a
\* GLEAN_CHECK reply that starts with "N" or "n" is the last message: the
\* extraction has returned and made no call after it.
C2_BoundedGleaning ==
    \A x \in Extractors :
        max_gleanings[x] > 0 =>
            /\ iteration[x] <= max_gleanings[x]
            /\ ncalls[x] <= 1 + 2 * max_gleanings[x]
            /\ Cardinality(AskReplies(x)) <= max_gleanings[x]
            /\ Cardinality(CheckReplies(x)) <= max_gleanings[x]
            /\ \A p \in NoMoreReplies(x) :
                  /\ p = Len(messages[x])
                  /\ pc[x] = "done"
                  /\ 2 * ncalls[x] = p

C2_Witness ==
    \E x \in Extractors :
        /\ max_gleanings[x] = 2
        /\ pc[x] = "done"
        /\ ncalls[x] = 3
        /\ messages[x][Len(messages[x])].content[1] = "n"

\* C3: with max_gleanings < 0 an extraction has returned exactly when a
\* GLEAN_CHECK reply started with "N" or "n": it returns on the first such
\* reply, which is then the last message, and no iteration count ends it.
C3_UnlimitedGleaning ==
    \A x \in Extractors :
        max_gleanings[x] < 0 =>
            /\ pc[x] = "done" <=> NoMoreReplies(x) /= {}
            /\ NoMoreReplies(x) \subseteq {Len(messages[x])}
            /\ pc[x] = "ask" => iteration[x] = Cardinality(CheckReplies(x)) + 1
            /\ pc[x] \in {"check", "done"} => iteration[x] = Cardinality(AskReplies(x))

C3_Witness ==
    \E x \in Extractors :
        /\ max_gleanings[x] < 0
        /\ pc[x] = "done"
        /\ iteration[x] = MaxIter
        /\ iteration[x] >= MaxGleanings
        /\ Cardinality(NoMoreReplies(x)) = 1


\* The positions of the replies whose records extract accumulates: the
\* INITIAL reply (message 2) and the GLEAN_ASK replies.
DataReplies(x) == {p \in {2} : p <= Len(messages[x])} \cup AskReplies(x)

\* The entities, or the relationships, of the replies at the positions ps
\* of the history on from position p, in the order of the replies.
RECURSIVE AccumulatedEntitiesFrom(_, _, _)
AccumulatedEntitiesFrom(x, ps, p) ==
    IF p > Len(messages[x]) THEN <<>>
    ELSE IF p \in ps
         THEN parse_graph_output(messages[x][p].content).entities
                 \o AccumulatedEntitiesFrom(x, ps, p + 1)
         ELSE AccumulatedEntitiesFrom(x, ps, p + 1)

RECURSIVE AccumulatedRelationshipsFrom(_, _, _)
AccumulatedRelationshipsFrom(x, ps, p) ==
    IF p > Len(messages[x]) THEN <<>>
    ELSE IF p \in ps
         THEN parse_graph_output(messages[x][p].content).relationships
                 \o AccumulatedRelationshipsFrom(x, ps, p + 1)
         ELSE AccumulatedRelationshipsFrom(x, ps, p + 1)

\* Where key k is first met in the list acc.
FirstAt(acc, Key(_), k) ==
    CHOOSE j \in 1..Len(acc) :
        Key(acc[j]) = k /\ \A i \in 1..(j - 1) : Key(acc[i]) /= k

\* out is acc without the later occurrences of each key: one record per
\* key of acc, each the first of its key, in the order they were first met.
FirstOccurrences(out, acc, Key(_)) ==
    /\ \A i, j \in 1..Len(out) : i < j => Key(out[i]) /= Key(out[j])
    /\ {Key(out[i]) : i \in 1..Len(out)} = {Key(acc[j]) : j \in 1..Len(acc)}
    /\ \A i \in 1..Len(out) : out[i] = acc[FirstAt(acc, Key, Key(out[i]))]
    /\ \A i, j \in 1..Len(out) :
          i < j => FirstAt(acc, Key, Key(out[i])) < FirstAt(acc, Key, Key(out[j]))

NameOf(e) == e.name

SourceAndTarget(r) == <<r.source, r.target>>

\* The lists all_entities and all_relationships as the step that returns
\* finds them: those of the state before it, or, when the step is the
\* INITIAL one, the records of the reply it has just appended.
Gathered(x) ==
    IF pc[x] = "initial"
    THEN parse_graph_output(messages'[x][2].content)
    ELSE [raised |-> FALSE, entities |-> entities[x],
          relationships |-> relationships[x]]

Returns(x) == pc[x] /= "done" /\ pc'[x] = "done"

\* C4: what GraphExtractor.extract returns is the first occurrences, in
\* order, of the records it gathered: entities by their exact name,
\* relationships by their ordered (source, target) pair.
C4_GraphDedup ==
    [][\A x \in Extractors :
          (Returns(x) /\ kind[x] = GraphKind) =>
              \A got \in {Gathered(x)} :
                  /\ FirstOccurrences(entities'[x], got.entities, NameOf)
                  /\ FirstOccurrences(relationships'[x], got.relationships,
                                      SourceAndTarget)]_vars

\* Duplicates were dropped, and "A" and "a", (A, B) and (B, A) are kept.
C4_Witness ==
    \E x \in Extractors :
        /\ pc[x] = "done" /\ kind[x] = GraphKind
        /\ Len(AccumulatedEntitiesFrom(x, DataReplies(x), 1)) > Len(entities[x])
        /\ Len(AccumulatedRelationshipsFrom(x, DataReplies(x), 1)) > Len(relationships[x])
        /\ {<<"A">>, <<"a">>} \subseteq {entities[x][i].name : i \in 1..Len(entities[x])}
        /\ {<<<<"A">>, <<"B">>>>, <<<<"B">>, <<"A">>>>} \subseteq
              {SourceAndTarget(relationships[x][i]) : i \in 1..Len(relationships[x])}
        /\ entities[x][1].type = <<"U">>


(***************************************************************************)
(* DedupSpec: the deduplication of ClaimExtractor.extract applied to every *)
(* list of up to MaxAccum claims of a pool, under every hash function      *)
(***************************************************************************)

\* How long the deduplicated list may be.
MaxAccum == 3

\* How many values hash() takes on the description prefixes of the pool.
HashSpace == 3

Filler(n) == [i \in 1..n |-> "p"]

\* Two descriptions that differ after their 50th character only, one that
\* differs from them at the 50th, and one shorter than 50 characters.
LongX == Filler(50) \o <<"x">>

LongY == Filler(50) \o <<"y", "z">>

OtherAt50 == Filler(49) \o <<"q", "x">>

Short == <<"p", "p">>

PoolDescriptions == {LongX, LongY, OtherAt50, Short}

PoolClaim(subject, object, type, status, description) ==
    Claim(subject, object, type, status, None, None, description, <<"t">>)

ClaimPool ==
    { PoolClaim(<<"S">>, <<"O">>, <<"T">>, <<"TRUE">>, LongX),
      PoolClaim(<<"S">>, None, <<"T">>, <<"FALSE">>, LongY),
      PoolClaim(<<"S">>, <<"O">>, <<"T">>, <<"TRUE">>, OtherAt50),
      PoolClaim(<<"S">>, <<"O">>, <<"T">>, <<"TRUE">>, Short),
      PoolClaim(<<"S">>, <<"O">>, <<"U">>, <<"TRUE">>, LongX),
      PoolClaim(<<"R">>, <<"O">>, <<"T">>, <<"TRUE">>, LongX) }

SeqsUpTo(S, n) == UNION {[1..m -> S] : m \in 0..n}

\* No extraction is running.
LoopIdle ==
    /\ kind = [x \in Extractors |-> ClaimsKind]
    /\ max_gleanings = [x \in Extractors |-> 0]
    /\ text = [x \in Extractors |-> "text"]
    /\ pc = [x \in Extractors |-> "idle"]
    /\ messages = [x \in Extractors |-> <<>>]
    /\ iteration = [x \in Extractors |-> 0]
    /\ entities = [x \in Extractors |-> <<>>]
    /\ relationships = [x \in Extractors |-> <<>>]
    /\ claims = [x \in Extractors |-> <<>>]
    /\ ncalls = [x \in Extractors |-> 0]
    /\ sent = [x \in Extractors |-> <<>>]

DedupInit ==
    /\ LoopIdle
    /\ ClientReady
    /\ ParserIdle
    /\ hashfn \in [HashDomain(PoolDescriptions) -> 0..(HashSpace - 1)]
    /\ accumulated \in SeqsUpTo(ClaimPool, MaxAccum)
    /\ deduped = NotDeduped

\* seen = {}; for c in all_claims: ...; return list(seen.values())
Deduplicate ==
    /\ ~deduped.returned
    /\ deduped' = [returned |-> TRUE, claims |-> DedupClaims(accumulated, hashfn)]
    /\ UNCHANGED <<loopVars, hashfn, parserVars, accumulated, clientVars>>

DedupNext == Deduplicate

DedupSpec == DedupInit /\ [][DedupNext]_vars

\* c.description[:50], read off the description itself.
First50(description) ==
    [i \in {j \in 1..Len(description) : j <= 50} |-> description[i]]

\* The key as hash() makes it, and the key with the prefix itself.
HashedKey(c) == <<c.subject, c.type, hashfn[First50(c.description)]>>

PrefixKey(c) == <<c.subject, c.type, First50(c.description)>>

SubjectAndType(c) == <<c.subject, c.type>>

Positions(s) == 1..Len(s)

\* C5 as it is claimed: the returned claims are the first occurrences, in
\* order, of the accumulated claims by (subject, type, first 50 characters
\* of description), so that claims differing in the prefix are all kept.
C5_PrefixKeyDedup ==
    deduped.returned => FirstOccurrences(deduped.claims, accumulated, PrefixKey)

\* C5, amended: the returned claims are the first occurrences, in order,
\* of the accumulated claims by (subject, type, hash of the first 50
\* characters of description).  Claims equal in subject, type and
\* 50-character prefix collapse to the earliest, whatever else differs;
\* claims that differ in subject or type are all kept; claims that differ
\* in the prefix alone are kept unless their prefixes hash alike.
C5_HashedKeyDedup ==
    deduped.returned =>
        /\ FirstOccurrences(deduped.claims, accumulated, HashedKey)
        /\ \A i, j \in Positions(deduped.claims) :
              i /= j => PrefixKey(deduped.claims[i]) /= PrefixKey(deduped.claims[j])
        /\ \A k \in {SubjectAndType(accumulated[j]) : j \in Positions(accumulated)} :
              \E i \in Positions(deduped.claims) :
                  /\ SubjectAndType(deduped.claims[i]) = k
                  /\ deduped.claims[i] =
                        accumulated[FirstAt(accumulated, SubjectAndType, k)]
        /\ \A i, j \in Positions(accumulated) :
              (/\ i < j
               /\ SubjectAndType(accumulated[i]) = SubjectAndType(accumulated[j])
               /\ hashfn[First50(accumulated[i].description)] /=
                     hashfn[First50(accumulated[j].description)])
              => \E a, b \in Positions(deduped.claims) :
                    /\ a /= b
                    /\ HashedKey(deduped.claims[a]) = HashedKey(accumulated[i])
                    /\ HashedKey(deduped.claims[b]) = HashedKey(accumulated[j])

\* Two claims that agree on subject, type and prefix but differ later in
\* the description and in object and status were collapsed to the first,
\* and claims of another subject and of another type were kept.
C5_Witness ==
    /\ deduped.returned
    /\ Len(accumulated) = 3
    /\ Len(deduped.claims) = 2
    /\ accumulated[1].description = LongX
    /\ accumulated[2].description = LongY
    /\ accumulated[2].object = None
    /\ SubjectAndType(accumulated[3]) /= SubjectAndType(accumulated[1])
    /\ deduped.claims = <<accumulated[1], accumulated[3]>>


(***************************************************************************)
(* ParseSpec: parse_graph_output and parse_claims_output applied to every  *)
(* blob of up to MaxChunks chunks of a table, joined in either style       *)
(***************************************************************************)

\* How many chunks a blob may have.
MaxChunks == 2

\* A chunk of LLM output, with the records each parser is to make of it,
\* whether each parser is to skip it as empty, as not ending in a
\* parenthesized group or as short of fields, and the names of the claim
\* fields that are written NONE in it.
Chunk(t, es, rs, cs, graph_skipped, claims_skipped, nones) ==
    [text |-> t, entities |-> es, relationships |-> rs, claims |-> cs,
     graph_skipped |-> graph_skipped, claims_skipped |-> claims_skipped,
     nones |-> nones]

\* A well-formed entity record.
EntityPlain ==
    Chunk(Tuple(<<Quoted(ENTITY), <<"A">>, <<"T">>, <<"d">>>>),
          <<Entity(<<"A">>, <<"T">>, <<"d">>)>>,
          <<>>,
          <<>>,
          FALSE, TRUE, {})

\* Text before the record and whitespace after it; the tag single-quoted,
\* upper-cased and spaced; a run of whitespace in the name; an empty
\* description; a fifth field.
EntityLoose ==
    Chunk(<<"-", " ">> \o Tuple(<<<<" ", "'", "E", "N", "T", "I", "T", "Y", "'", " ">>,
                  <<" ", "b", "\n", "\t", "c", " ">>, <<"U">>,
                  <<>>, <<"x">>>>)
             \o <<" ", "\n">>,
          <<Entity(<<"b", " ", "c">>, <<"U">>, <<>>)>>,
          <<>>,
          <<>>,
          FALSE, TRUE, {})

\* The tag unquoted and in mixed case; parentheses in the description.
EntityBare ==
    Chunk(Tuple(<<<<"E", "n", "t", "i", "t", "y">>, <<"a">>, <<"T">>,
                  <<"d", " ", "(", "x", ")">>>>),
          <<Entity(<<"a">>, <<"T">>, <<"d", " ", "(", "x", ")">>)>>,
          <<>>,
          <<>>,
          FALSE, TRUE, {})

\* An entity record of nine fields: also a claim record to parse_claims_output.
EntityLong ==
    Chunk(Tuple(<<Quoted(ENTITY), <<"A">>, <<"T">>, <<"d">>, <<"5">>,
                  <<"6">>, <<"7">>, <<"8">>, <<"9">>>>),
          <<Entity(<<"A">>, <<"T">>, <<"d">>)>>,
          <<>>,
          <<Claim(<<"\"", "e", "n", "t", "i", "t", "y", "\"">>, <<"A">>,
                  <<"T">>, <<"d">>, <<"5">>, <<"6">>, <<"7">>,
                  <<"8">>)>>,
          FALSE, FALSE, {})

\* An entity record of three fields.
EntityShort ==
    Chunk(Tuple(<<Quoted(ENTITY), <<"A">>, <<"T">>>>),
          <<>>,
          <<>>,
          <<>>,
          TRUE, TRUE, {})

\* A relationship record with a weight.
RelWeighted ==
    Chunk(Tuple(<<Quoted(RELATIONSHIP), <<"A">>, <<"B">>, <<"r">>, <<"9">>>>),
          <<>>,
          <<Relationship(<<"A">>, <<"B">>, <<"r">>, <<"+", 9, <<>>>>)>>,
          <<>>,
          FALSE, TRUE, {})

\* A relationship record of four fields.
RelNoWeight ==
    Chunk(Tuple(<<Quoted(RELATIONSHIP), <<"A">>, <<"B">>, <<"r">>>>),
          <<>>,
          <<Relationship(<<"A">>, <<"B">>, <<"r">>, DefaultWeight)>>,
          <<>>,
          FALSE, TRUE, {})

\* The fifth field is no number.
RelBadWeight ==
    Chunk(Tuple(<<
                  <<"\"", "R", "E", "L", "A", "T", "I", "O", "N", "S", "H", "I", "P", "\"">>,
                  <<"B">>, <<"A">>, <<"r">>, <<"a", "b", "c">>>>),
          <<>>,
          <<Relationship(<<"B">>, <<"A">>, <<"r">>, DefaultWeight)>>,
          <<>>,
          FALSE, TRUE, {})

\* The fifth field is empty.
RelEmptyWeight ==
    Chunk(Tuple(<<Quoted(RELATIONSHIP), <<"A">>, <<"B">>, <<"s">>, <<>>>>),
          <<>>,
          <<Relationship(<<"A">>, <<"B">>, <<"s">>, DefaultWeight)>>,
          <<>>,
          FALSE, TRUE, {})

\* A signed decimal weight with whitespace around it, and a sixth field.
RelLoose ==
    Chunk(Tuple(<<
                  <<"'", "r", "e", "l", "a", "t", "i", "o", "n", "s", "h", "i", "p", "'">>,
                  <<"A">>, <<"C">>, <<"r">>,
                  <<" ", "-", "2", ".", "5", "0", " ">>, <<"x">>>>),
          <<>>,
          <<Relationship(<<"A">>, <<"C">>, <<"r">>, <<"-", 2, <<"5">>>>)>>,
          <<>>,
          FALSE, TRUE, {})

\* float() accepts "nan".
RelNaN ==
    Chunk(Tuple(<<Quoted(RELATIONSHIP), <<"C">>, <<"A">>, <<"r">>,
                  <<"n", "a", "n">>>>),
          <<>>,
          <<Relationship(<<"C">>, <<"A">>, <<"r">>, NaN)>>,
          <<>>,
          FALSE, TRUE, {})

\* A relationship record of three fields.
RelShort ==
    Chunk(Tuple(<<Quoted(RELATIONSHIP), <<"A">>, <<"B">>>>),
          <<>>,
          <<>>,
          <<>>,
          TRUE, TRUE, {})

\* A chunk that is empty once trimmed.
Blank ==
    Chunk(<<" ", "\n", " ">>,
          <<>>,
          <<>>,
          <<>>,
          TRUE, TRUE, {})

\* A record cut before its closing parenthesis.
Truncated ==
    Chunk(<<"(", "\"", "e", "n", "t", "i", "t", "y", "\"", "<", "|", ">", "A", "<", "|", ">", "T", "<", "|", ">", "d">>,
          <<>>,
          <<>>,
          <<>>,
          TRUE, TRUE, {})

\* Text after the parenthesized group.
Trailing ==
    Chunk(Tuple(<<<<"S">>, <<"O">>, <<"T">>, <<"T", "R", "U", "E">>, <<"1">>,
                  <<"2">>, <<"e">>, <<"s">>>>)
             \o <<" ", "e", "t", "c", ".">>,
          <<>>,
          <<>>,
          <<>>,
          TRUE, TRUE, {})

\* A claim record of eight fields.
ClaimPlain ==
    Chunk(Tuple(<<<<"S">>, <<"O">>, <<"T">>, <<"T", "R", "U", "E">>, <<"1">>,
                  <<"2">>, <<"e">>, <<"s">>>>),
          <<>>,
          <<>>,
          <<Claim(<<"S">>, <<"O">>, <<"T">>, <<"T", "R", "U", "E">>, <<"1">>,
                  <<"2">>, <<"e">>, <<"s">>)>>,
          FALSE, FALSE, {})

\* NONE, in several cases, in every field; a ninth field.
ClaimNones ==
    Chunk(Tuple(<<<<"N", "O", "N", "E">>, <<"n", "o", "n", "e">>,
                  <<"N", "o", "n", "e">>, <<"n", "O", "n", "E">>,
                  <<" ", "N", "O", "N", "E", " ">>,
                  <<"N", "o", "n", "e">>, <<"N", "O", "N", "E">>,
                  <<"n", "o", "n", "e">>, <<"x">>>>),
          <<>>,
          <<>>,
          <<Claim(<<"N", "O", "N", "E">>, None, <<"N", "o", "n", "e">>,
                  <<"n", "O", "n", "E">>, None, None,
                  <<"N", "O", "N", "E">>, <<"n", "o", "n", "e">>)>>,
          FALSE, FALSE, {"subject", "object", "type", "status", "start_date", "end_date", "description", "source_text"})

\* Values close to NONE, and an empty one, where NONE would be null.
ClaimNearNone ==
    Chunk(Tuple(<<<<"S">>, <<"N", "O", "N", "E", ".">>, <<"T">>,
                  <<"F", "A", "L", "S", "E">>, <<>>,
                  <<"N", "O", "N", " ", "E">>, <<"e">>, <<"s">>>>),
          <<>>,
          <<>>,
          <<Claim(<<"S">>, <<"N", "O", "N", "E", ".">>, <<"T">>,
                  <<"F", "A", "L", "S", "E">>, <<>>,
                  <<"N", "O", "N", " ", "E">>, <<"e">>, <<"s">>)>>,
          FALSE, FALSE, {})

\* A claim record of seven fields.
ClaimShort ==
    Chunk(Tuple(<<<<"S">>, <<"O">>, <<"T">>, <<"T", "R", "U", "E">>, <<"1">>,
                  <<"2">>, <<"e">>>>),
          <<>>,
          <<>>,
          <<>>,
          FALSE, TRUE, {})

ChunkTable ==
    <<EntityPlain, EntityLoose, EntityBare, EntityLong, EntityShort,
      RelWeighted, RelNoWeight, RelBadWeight, RelEmptyWeight, RelLoose,
      RelNaN, RelShort, Blank, Truncated, Trailing, ClaimPlain, ClaimNones,
      ClaimNearNone, ClaimShort>>

\* The chunks are joined by the bare record delimiter, or by the delimiter
\* on a line of its own with the completion marker closing the blob.
Styles ==
    { [between |-> RECORD_DELIMITER, after |-> <<>>],
      [between |-> <<"\n">> \o RECORD_DELIMITER \o <<"\n">>,
       after   |-> <<"\n">> \o COMPLETION_MARKER] }

Texts(ids) == [i \in 1..Len(ids) |-> ChunkTable[ids[i]].text]

Render(ids, style) == Join(Texts(ids), style.between) \o style.after

ParseInit ==
    /\ LoopIdle
    /\ ClientReady
    /\ DedupIdle
    /\ hashfn = [p \in HashDomain(LoopDescriptions) |-> 0]
    /\ chunks \in SeqsUpTo(DOMAIN ChunkTable, MaxChunks)
    /\ separator \in Styles
    /\ llm_output = Render(chunks, separator)
    /\ parsed = "no"
    /\ graph_out = NoGraph
    /\ claims_out = NoClaims

\* entities, relationships = parse_graph_output(llm_output)
ParseGraph ==
    /\ parsed = "no"
    /\ parsed' = "graph"
    /\ graph_out' = parse_graph_output(llm_output)
    /\ UNCHANGED <<loopVars, hashfn, dedupVars, clientVars, llm_output, chunks, separator,
                   claims_out>>

\* claims = parse_claims_output(llm_output)
ParseClaims ==
    /\ parsed = "no"
    /\ parsed' = "claims"
    /\ claims_out' = parse_claims_output(llm_output)
    /\ UNCHANGED <<loopVars, hashfn, dedupVars, clientVars, llm_output, chunks, separator,
                   graph_out>>

ParseNext == ParseGraph \/ ParseClaims

ParseSpec == ParseInit /\ [][ParseNext]_vars

\* The records the table gives for the chunks ids, in their order.
RECURSIVE ExpectedFrom(_, _)
ExpectedFrom(ids, records) ==
    IF ids = <<>> THEN <<>>
    ELSE ChunkTable[Head(ids)][records] \o ExpectedFrom(Tail(ids), records)

\* The chunks of ids that the parser is not to skip.
Kept(ids, skipped) == SelectSeq(ids, LAMBDA c : ~ChunkTable[c][skipped])

\* C6: neither parser raises, and the chunks that are empty once trimmed,
\* do not end in a parenthesized group or are short of fields give no
\* record and leave the records of the other chunks as they are: the
\* result is that of the blob without them, and is empty when every chunk
\* is one of them.
C6_SkippedChunks ==
    /\ ~graph_out.raised
    /\ ~claims_out.raised
    /\ parsed = "graph" =>
          /\ graph_out =
                parse_graph_output(Render(Kept(chunks, "graph_skipped"), separator))
          /\ Kept(chunks, "graph_skipped") = <<>> => graph_out = NoGraph
    /\ parsed = "claims" =>
          /\ claims_out =
                parse_claims_output(Render(Kept(chunks, "claims_skipped"), separator))
          /\ Kept(chunks, "claims_skipped") = <<>> => claims_out = NoClaims

\* A skipped chunk stood before a chunk that gave its record.
C6_Witness ==
    /\ Len(chunks) = 2
    /\ \/ /\ parsed = "graph"
          /\ ChunkTable[chunks[1]] \in {EntityShort, Blank, Truncated, Trailing}
          /\ ChunkTable[chunks[2]] = RelWeighted
          /\ Len(graph_out.relationships) = 1
       \/ /\ parsed = "claims"
          /\ ChunkTable[chunks[1]] \in {ClaimShort, Blank, Truncated, Trailing}
          /\ ChunkTable[chunks[2]] = ClaimPlain
          /\ Len(claims_out.claims) = 1

\* C7: parse_graph_output makes one Entity of each entity record, with the
\* normalized name, type and description the table gives, whatever the
\* case and the quotes of the tag and whatever follows the fourth field,
\* and none of a record of three fields; a blob with no relationship
\* record gives no Relationship.
C7_EntityRecords ==
    parsed = "graph" =>
        /\ graph_out.entities = ExpectedFrom(chunks, "entities")
        /\ ExpectedFrom(chunks, "relationships") = <<>> =>
              graph_out.relationships = <<>>

C7_Witness ==
    /\ parsed = "graph"
    /\ Len(chunks) = 2
    /\ ChunkTable[chunks[1]] = EntityLoose
    /\ ChunkTable[chunks[2]] = EntityLong
    /\ Len(graph_out.entities) = 2
    /\ graph_out.entities[1].name = <<"b", " ", "c">>
    /\ graph_out.relationships = <<>>

\* C8: parse_graph_output makes one Relationship of each relationship
\* record of four fields or more and does not raise; its weight is the
\* one the table gives: 1.0 when the fifth field is absent, empty or not
\* a number, and else the float that field parses to.
C8_RelationshipWeight ==
    parsed = "graph" =>
        /\ ~graph_out.raised
        /\ graph_out.relationships = ExpectedFrom(chunks, "relationships")

C8_Witness ==
    /\ parsed = "graph"
    /\ Len(chunks) = 2
    /\ ChunkTable[chunks[1]] = RelBadWeight
    /\ ChunkTable[chunks[2]] = RelLoose
    /\ Len(graph_out.relationships) = 2
    /\ graph_out.relationships[1].weight = <<"+", 1, <<>>>>
    /\ graph_out.relationships[2].weight = <<"-", 2, <<"5">>>>

\* C9: parse_claims_output does not raise; it makes no Claim of a record of
\* fewer than eight fields and one Claim of a record of eight or more,
\* its fields the first eight of the record in their order, a leading
\* "entity" tag being the subject like any other first field.
C9_ClaimRecords ==
    parsed = "claims" =>
        /\ ~claims_out.raised
        /\ claims_out.claims = ExpectedFrom(chunks, "claims")

C9_Witness ==
    /\ parsed = "claims"
    /\ Len(chunks) = 2
    /\ ChunkTable[chunks[1]] = ClaimShort
    /\ ChunkTable[chunks[2]] = EntityLong
    /\ Len(claims_out.claims) = 1
    /\ claims_out.claims[1].subject = Quoted(ENTITY)
    /\ claims_out.claims[1].source_text = <<"8">>

ClaimFieldNames ==
    {"subject", "object", "type", "status", "start_date", "end_date",
     "description", "source_text"}

NullableFields == {"object", "start_date", "end_date"}

\* The chunks that give a claim, in their order.
ClaimChunks == SelectSeq(chunks, LAMBDA c : ChunkTable[c].claims /= <<>>)

\* C10: a field of a Claim is null exactly when it is object, start_date
\* or end_date and was written NONE, in whatever case; a NONE written in
\* another field is kept as the string it is.
C10_NoneFields ==
    parsed = "claims" =>
        /\ Len(claims_out.claims) = Len(ClaimChunks)
        /\ \A k \in 1..Len(ClaimChunks) : \A n \in ClaimFieldNames :
              /\ claims_out.claims[k][n] = None
                    <=> (n \in NullableFields /\ n \in ChunkTable[ClaimChunks[k]].nones)
              /\ (n \notin NullableFields /\ n \in ChunkTable[ClaimChunks[k]].nones)
                    => upper(claims_out.claims[k][n]) = NONE

C10_Witness ==
    /\ parsed = "claims"
    /\ Len(chunks) = 2
    /\ ChunkTable[chunks[1]] = ClaimNones
    /\ ChunkTable[chunks[2]] = ClaimNearNone
    /\ claims_out.claims[1].object = None
    /\ claims_out.claims[1].start_date = None
    /\ claims_out.claims[1].end_date = None
    /\ claims_out.claims[1].subject = NONE
    /\ claims_out.claims[2].object = <<"N", "O", "N", "E", ".">>
    /\ claims_out.claims[2].start_date = <<>>

(***************************************************************************)
(* RoundTripSpec: parse_graph_output applied to the text rendered from     *)
(* every list of up to MaxEntities entities of a pool                      *)
(***************************************************************************)

\* How many entities a rendered list may have.
MaxEntities == 3

\* Entities with whitespace-normalized fields: two of one name, one with an
\* inner space and an empty description, one with parentheses, and three
\* with a token of the wire format inside a field.
EntityPool ==
    { Entity(<<"A">>, <<"T">>, <<"d">>),
      Entity(<<"A">>, <<"U">>, <<"e">>),
      Entity(<<"b", " ", "c">>, <<"T">>, <<>>),
      Entity(<<"a", " ", "(", "x", ")">>, <<"T">>, <<"(", "d">>),
      Entity(<<"C", "#", "#">>, <<"T">>, <<"d">>),
      Entity(<<"D">>, <<"T">>, <<"x">> \o TUPLE_DELIMITER \o <<"y">>),
      Entity(<<"E">> \o COMPLETION_MARKER, <<"T">>, <<"d">>) }

\* Each entity as ("entity"<|>name<|>type<|>description)
EntityTexts(es) ==
    [i \in 1..Len(es) |-> EntityText(es[i].name, es[i].type, es[i].description)]

PlainStyle == [between |-> RECORD_DELIMITER, after |-> <<>>]

RoundTripInit ==
    /\ LoopIdle
    /\ ClientReady
    /\ DedupIdle
    /\ hashfn = [p \in HashDomain(LoopDescriptions) |-> 0]
    /\ chunks \in SeqsUpTo(EntityPool, MaxEntities)
    /\ separator = PlainStyle
    /\ llm_output = Join(EntityTexts(chunks), separator.between)
    /\ parsed = "no"
    /\ graph_out = NoGraph
    /\ claims_out = NoClaims

RoundTripNext == ParseGraph

RoundTripSpec == RoundTripInit /\ [][RoundTripNext]_vars

\* s has an occurrence of the token tok.
Contains(s, tok) ==
    \E i \in 1..Len(s) :
        /\ i + Len(tok) - 1 <= Len(s)
        /\ \A k \in 1..Len(tok) : s[i + k - 1] = tok[k]

WireTokens == {RECORD_DELIMITER, TUPLE_DELIMITER, COMPLETION_MARKER}

\* No field of the entity has a token of the wire format in it.
TokenFree(e) ==
    \A f \in {e.name, e.type, e.description} : \A tok \in WireTokens :
        ~Contains(f, tok)

\* C11 as it is claimed: whatever the fields of the rendered entities,
\* parse_graph_output returns the list that was rendered.
C11_RoundTripOfAny ==
    parsed = "graph" => graph_out.entities = chunks

\* C11, amended: when no field of the rendered entities has the record
\* delimiter, the field delimiter or the completion marker in it,
\* parse_graph_output does not raise and returns the same entities, in
\* their order and with their duplicates, and no relationship.
C11_RoundTrip ==
    (parsed = "graph" /\ \A i \in 1..Len(chunks) : TokenFree(chunks[i])) =>
        /\ ~graph_out.raised
        /\ graph_out.entities = chunks
        /\ graph_out.relationships = <<>>

\* A list with the same entity twice and another of the same name came back.
C11_Witness ==
    /\ parsed = "graph"
    /\ Len(chunks) = 3
    /\ \A i \in 1..Len(chunks) : TokenFree(chunks[i])
    /\ chunks[1] = chunks[3]
    /\ chunks[1] /= chunks[2]
    /\ chunks[1].name = chunks[2].name
    /\ Len(graph_out.entities) = 3

(***************************************************************************)
(* ExampleSpec: parse_graph_output applied to the example blob of          *)
(* level3_parser.py, the completion marker standing at any place in it     *)
(***************************************************************************)

APPLE_INC ==
    <<"A", "P", "P", "L", "E", " ", "I", "N", "C">>

ORGANIZATION ==
    <<"O", "R", "G", "A", "N", "I", "Z", "A", "T", "I", "O", "N">>

TechCompany ==
    <<"T", "e", "c", "h", " ", "c", "o", "m", "p", "a", "n", "y">>

STEVE_JOBS ==
    <<"S", "T", "E", "V", "E", " ", "J", "O", "B", "S">>

Founded ==
    <<"F", "o", "u", "n", "d", "e", "d">>

\* The record delimiter on a line of its own.
DelimiterLine == <<"\n">> \o RECORD_DELIMITER \o <<"\n">>

\* The example without its completion marker.
ExampleRecords ==
    EntityText(APPLE_INC, ORGANIZATION, TechCompany) \o DelimiterLine
        \o RelationshipText(STEVE_JOBS, APPLE_INC, Founded, <<"9">>) \o <<"\n">>

\* The example as it is written: the completion marker closes it.
ExampleBlob == ExampleRecords \o COMPLETION_MARKER

\* s with tok put in after its first p characters.
InsertAt(s, p, tok) == SubSeq(s, 1, p) \o tok \o SubSeq(s, p + 1, Len(s))

ExampleInit ==
    /\ LoopIdle
    /\ ClientReady
    /\ DedupIdle
    /\ hashfn = [p \in HashDomain(LoopDescriptions) |-> 0]
    /\ chunks = <<>>
    /\ separator = [between |-> DelimiterLine, after |-> COMPLETION_MARKER]
    /\ llm_output \in {InsertAt(ExampleRecords, p, COMPLETION_MARKER) :
                          p \in 0..Len(ExampleRecords)}
    /\ parsed = "no"
    /\ graph_out = NoGraph
    /\ claims_out = NoClaims

ExampleNext == ParseGraph

ExampleSpec == ExampleInit /\ [][ExampleNext]_vars

\* C12: the example, and the same records with the completion marker at
\* any other place, parse to the one Entity and the one Relationship of
\* weight 9.0 that the example names, and to nothing more.
C12_Example ==
    parsed = "graph" =>
        /\ ~graph_out.raised
        /\ graph_out.entities = <<Entity(APPLE_INC, ORGANIZATION, TechCompany)>>
        /\ graph_out.relationships =
              <<Relationship(STEVE_JOBS, APPLE_INC, Founded, <<"+", 9, <<>>>>)>>

\* The example itself was parsed.
C12_Witness ==
    /\ parsed = "graph"
    /\ llm_output = ExampleBlob
    /\ Len(graph_out.entities) = 1
    /\ Len(graph_out.relationships) = 1
    /\ graph_out.relationships[1].weight = <<"+", 9, <<>>>>

(***************************************************************************)
(* ClientSpec: LLMClient() called with every model name of a table, every  *)
(* api_key argument and every environment, and then the first chat call    *)
(* of an extraction with the client it made                                *)
(***************************************************************************)

\* Model names, each with the provider its prefix names (None: no provider).
ModelTable ==
    << [name |-> <<"g", "p", "t", "-", "5">>,    provider |-> OPENAI],
       [name |-> <<"G", "P", "T", "-", "4">>,    provider |-> OPENAI],
       [name |-> <<"o", "3", "-", "m">>,     provider |-> OPENAI],
       [name |-> <<"c", "l", "a", "u", "d", "e", "-", "3">>, provider |-> ANTHROPIC],
       [name |-> <<"G", "e", "m", "i", "n", "i", "/", "f">>, provider |-> GEMINI],
       [name |-> <<"g", "e", "m", "i", "n", "i", "-", "p">>, provider |-> GEMINI],
       [name |-> <<"l", "l", "a", "m", "a">>,    provider |-> None],
       [name |-> <<"o", "1">>,       provider |-> None] >>

ModelNames == {ModelTable[i].name : i \in DOMAIN ModelTable}

\* A variable of the environment is not set, empty, or holds its own key.
EnvValues(v) ==
    IF v = "OPENAI_API_KEY" THEN {None, <<>>, <<"k", "o">>}
    ELSE IF v = "ANTHROPIC_API_KEY" THEN {None, <<>>, <<"k", "a">>}
    ELSE {None, <<>>, <<"k", "g">>}

Environments == {env \in [EnvVars -> {None, <<>>, <<"k", "o">>, <<"k", "a">>, <<"k", "g">>}] :
                    \A v \in EnvVars : env[v] \in EnvValues(v)}

ClientInit ==
    /\ LoopIdle
    /\ ParserIdle
    /\ DedupIdle
    /\ hashfn = [p \in HashDomain(LoopDescriptions) |-> 0]
    /\ model \in ModelNames
    /\ api_key \in {None, <<>>, <<"k", "x">>}
    /\ environ \in Environments
    /\ client = NoClient

\* client = LLMClient(model, api_key)
Construct ==
    /\ client.state = "none"
    /\ client' = LLMClient(model, api_key, environ)
    /\ UNCHANGED <<loopVars, hashfn, parserVars, dedupVars, model, api_key, environ>>

ClientNext == Construct \/ Extract(1)

ClientSpec == ClientInit /\ [][ClientNext]_vars

\* Not None and not the empty str.
NonEmpty(v) == v \notin {None, <<>>}

\* The provider the table gives for the model name.
ProviderOf(name) ==
    ModelTable[CHOOSE i \in DOMAIN ModelTable : ModelTable[i].name = name].provider

EnvVarOf(provider) ==
    IF provider = OPENAI THEN "OPENAI_API_KEY"
    ELSE IF provider = ANTHROPIC THEN "ANTHROPIC_API_KEY"
    ELSE "GEMINI_API_KEY"

\* The first of the values that is a credential, or None.
FirstNonEmpty(values) ==
    IF \E i \in DOMAIN values : NonEmpty(values[i])
    THEN values[CHOOSE i \in DOMAIN values :
                   NonEmpty(values[i]) /\ \A j \in 1..(i - 1) : ~NonEmpty(values[j])]
    ELSE None

AnyAvailable ==
    FirstNonEmpty(<<environ["OPENAI_API_KEY"], environ["ANTHROPIC_API_KEY"],
                    environ["GEMINI_API_KEY"]>>)

\* C13 as it is claimed: the credential is the first there is of the
\* api_key argument, the variable of the provider the model name matches
\* and any variable that is set, and construction fails only when there is
\* none of the three.
C13_ThreeTierChain ==
    client.state /= "none" =>
        \A key \in {FirstNonEmpty(<<api_key,
                                    IF ProviderOf(model) = None THEN None
                                    ELSE environ[EnvVarOf(ProviderOf(model))],
                                    AnyAvailable>>)} :
            IF NonEmpty(key)
            THEN client.state = "constructed" /\ client.api_key = key
            ELSE client.state = "raised"

\* C13, amended: the credential is the api_key argument when it is not
\* empty; else the variable of the provider the model name matches, and
\* that one alone; else, the model name matching no provider, the first
\* variable that is set and not empty.  Construction fails exactly when
\* the credential so found is missing or empty.
C13_CredentialPrecedence ==
    client.state /= "none" =>
        \A key \in {IF NonEmpty(api_key) THEN api_key
                    ELSE IF ProviderOf(model) /= None
                    THEN environ[EnvVarOf(ProviderOf(model))]
                    ELSE AnyAvailable} :
            /\ client.provider = ProviderOf(model)
            /\ IF NonEmpty(key)
               THEN client.state = "constructed" /\ client.api_key = key
               ELSE client.state = "raised"

\* The variable of the matched provider gave the credential, an empty
\* api_key argument and a set variable of another provider notwithstanding.
C13_Witness ==
    /\ client.state = "constructed"
    /\ api_key = <<>>
    /\ client.provider = ANTHROPIC
    /\ environ["OPENAI_API_KEY"] = <<"k", "o">>
    /\ client.api_key = <<"k", "a">>

\* C14: LLMClient() raises exactly when the credential it resolved is
\* missing or empty, so a client that exists holds a non-empty api_key, a
\* non-empty api_key argument never raises, and as long as no client
\* exists no extraction has started and no chat call was made.
C14_MissingCredentialAtConstruction ==
    /\ client.state = "raised" <=>
          (client.state /= "none" /\ ~NonEmpty(client.api_key))
    /\ client.state = "constructed" => NonEmpty(client.api_key)
    /\ NonEmpty(api_key) => client.state /= "raised"
    /\ client.state /= "constructed" =>
          \A x \in Extractors :
              ncalls[x] = 0 /\ pc[x] = "idle" /\ sent[x] = <<>> /\ messages[x] = <<>>

\* The variable of the matched provider was set but empty: ValueError, and
\* no call.
C14_Witness ==
    /\ client.state = "raised"
    /\ client.provider = OPENAI
    /\ environ["OPENAI_API_KEY"] = <<>>
    /\ environ["GEMINI_API_KEY"] = <<"k", "g">>
    /\ client.api_key = <<>>
    /\ ncalls[1] = 0



(***************************************************************************)
(* GleanSpec: one extraction whose INITIAL and GLEAN_ASK replies are a     *)
(* well-formed record, an empty reply or a garbled one, and whose          *)
(* GLEAN_CHECK replies are the answers a model gives to the yes/no         *)
(* question, some of them carrying a record of their own                   *)
(***************************************************************************)

Empty == <<>>

\* A record cut off before its closing parenthesis, and one with too few
\* fields: both parse to zero records.
Garbled(k) ==
    IF k = GraphKind THEN <<"(", "\"", "e", "n", "t", "i", "t", "y", "\"", "<", "|", ">", "A", "<", "|", ">", "T">>
                     ELSE <<"(", "S", "<", "|", ">", "O", "<", "|", ">", "T", ")">>

WellFormed(k) ==
    IF k = GraphKind THEN EntityText(<<"A">>, <<"T">>, <<"d">>)
                     ELSE ClaimText(<<"S">>, <<"O">>, <<"T">>, <<"d">>)

\* What the model answers to the extraction and the continue prompt.
GleanDataReplies(k) == {WellFormed(k), Empty, Garbled(k)}

\* A record that no INITIAL or GLEAN_ASK reply carries.
CheckOnlyRecord(k) ==
    IF k = GraphKind THEN EntityText(<<"Z">>, <<"T">>, <<"d">>)
                     ELSE ClaimText(<<"Z">>, <<"O">>, <<"T">>, <<"d">>)

No == <<"N", "o">>

SpaceNo == <<" ", "n", "o">>

JustN == <<"n">>

NotSure == <<"N", "o", "t", " ", "s", "u", "r", "e", ",", " ", "m", "a", "y", "b", "e">>

\* What the model answers to the loop prompt.
GleanCheckReplies(k) ==
    {No, SpaceNo, JustN, NotSure, Empty, Yes,
     CheckOnlyRecord(k), LowerNo \o CheckOnlyRecord(k)}

GleanStep(x) ==
    \/ Extract(x)
    \/ \E r \in GleanDataReplies(kind[x]) : Initial(x, r)
    \/ \E r \in GleanDataReplies(kind[x]) : GleanAsk(x, r)
    \/ \E r \in GleanCheckReplies(kind[x]) : GleanCheck(x, r)

GleanNext == GleanStep(1)

GleanSpec == Init /\ [][GleanNext]_vars

\* The reply that the step appends to the history of extraction x.
Arrived(x) == messages'[x][Len(messages[x]) + 1]

\* The step calls chat with the history so far, the reply and one more
\* instruction.
Sends(x, instruction) ==
    /\ ncalls'[x] = ncalls[x] + 1
    /\ messages'[x] = messages[x] \o <<Arrived(x), User(instruction)>>
    /\ sent'[x] = messages'[x]

\* The step makes no chat call and extract returns.
Finishes(x) ==
    /\ pc'[x] = "done"
    /\ ncalls'[x] = ncalls[x]
    /\ sent'[x] = sent[x]
    /\ messages'[x] = Append(messages[x], Arrived(x))

Malformed(k) == {Empty, Garbled(k)}

\* The instructions in the history: the user turns after the prompt.
InstructionsSent(x) ==
    [j \in 1..((Len(messages[x]) - 1) \div 2) |-> messages[x][2 * j + 1].content]

\* The GLEAN_CHECK replies in the history, in order.
CheckRepliesSent(x) ==
    [j \in 1..((Len(messages[x]) - 2) \div 4) |-> messages[x][4 * j + 2].content]

\* The instructions of a whole extract call from iteration count it on,
\* given max_gleanings and the GLEAN_CHECK replies still to come.
RECURSIVE ExpectedInstructions(_, _, _, _)
ExpectedInstructions(k, mg, checks, it) ==
    IF ~(mg < 0 \/ it < mg) \/ checks = <<>> THEN <<>>
    ELSE <<CONTINUE_PROMPT(k), LOOP_PROMPT(k)>>
            \o IF FirstLetterIsN(Head(checks)) THEN <<>>
               ELSE ExpectedInstructions(k, mg, Tail(checks), it + 1)

\* The accumulators of extraction x are what they were.
SameAccumulators(x) ==
    /\ entities'[x] = entities[x]
    /\ relationships'[x] = relationships[x]
    /\ claims'[x] = claims[x]

\* C16: whatever the INITIAL reply holds, the continue instruction is sent
\* next if max_gleanings allows an iteration and extract returns otherwise;
\* whatever a GLEAN_ASK reply holds, the loop instruction is sent next; a
\* reply without records leaves the accumulators as they were; and when
\* extract has returned, the instructions it sent are those that
\* max_gleanings and the GLEAN_CHECK replies alone determine.
C16_MalformedReplyGoesOn ==
    /\ [][\A x \in Extractors :
             /\ (pc[x] = "initial" /\ pc'[x] /= "initial") =>
                   /\ IF max_gleanings[x] < 0 \/ 0 < max_gleanings[x]
                      THEN pc'[x] = "ask" /\ Sends(x, CONTINUE_PROMPT(kind[x]))
                      ELSE Finishes(x)
                   /\ Arrived(x).content \in Malformed(kind[x]) => SameAccumulators(x)
             /\ (pc[x] = "ask" /\ pc'[x] /= "ask") =>
                   /\ pc'[x] = "check" /\ Sends(x, LOOP_PROMPT(kind[x]))
                   /\ Arrived(x).content \in Malformed(kind[x]) => SameAccumulators(x)]_vars
    /\ [](\A x \in Extractors :
             pc[x] = "done" =>
                 InstructionsSent(x) =
                     ExpectedInstructions(kind[x], max_gleanings[x], CheckRepliesSent(x), 0))

\* Every INITIAL and GLEAN_ASK reply was garbled or empty; both iterations
\* ran all the same, and nothing was extracted.
C16_Witness ==
    \E x \in Extractors :
        /\ pc[x] = "done"
        /\ ncalls[x] = 5
        /\ messages[x][2] = Assistant(Garbled(kind[x]))
        /\ messages[x][4] = Assistant(Empty)
        /\ messages[x][6] = Assistant(Yes)
        /\ messages[x][8] = Assistant(Garbled(kind[x]))
        /\ messages[x][10] = Assistant(Yes)
        /\ entities[x] = <<>> /\ relationships[x] = <<>> /\ claims[x] = <<>>


\* The record of CheckOnlyRecord is among the records of extraction x.
HoldsCheckOnlyRecord(x) ==
    \/ \E i \in 1..Len(entities[x]) : entities[x][i].name = <<"Z">>
    \/ \E i \in 1..Len(relationships[x]) :
          <<"Z">> \in {relationships[x][i].source, relationships[x][i].target}
    \/ \E i \in 1..Len(claims[x]) : claims[x][i].subject = <<"Z">>

\* C20: a GLEAN_CHECK reply is appended to the history and tested, never
\* parsed: the step that takes it leaves the accumulators as they were, or
\* returns their first occurrences, and a record that only GLEAN_CHECK
\* replies carry is never among the accumulated or returned records.
C20_CheckRepliesNotParsed ==
    /\ [](\A x \in Extractors : ~HoldsCheckOnlyRecord(x))
    /\ [][\A x \in Extractors :
             (pc[x] = "check" /\ pc'[x] /= "check") =>
                 /\ messages'[x][Len(messages[x]) + 1].role = "assistant"
                 /\ IF pc'[x] = "done"
                    THEN /\ FirstOccurrences(entities'[x], entities[x], NameOf)
                         /\ FirstOccurrences(relationships'[x], relationships[x],
                                             SourceAndTarget)
                         /\ FirstOccurrences(claims'[x], claims[x], HashedKey)
                    ELSE SameAccumulators(x)]_vars

\* Both GLEAN_CHECK replies carried the record, one going on and one
\* stopping; the result holds the one record of the other replies.
C20_Witness ==
    \E x \in Extractors :
        /\ pc[x] = "done"
        /\ Len(messages[x]) = 10
        /\ messages[x][6] = Assistant(CheckOnlyRecord(kind[x]))
        /\ messages[x][10] = Assistant(LowerNo \o CheckOnlyRecord(kind[x]))
        /\ messages[x][8] = Assistant(WellFormed(kind[x]))
        /\ Len(entities[x]) + Len(claims[x]) = 1


IsPrefix(s, t) == Len(s) <= Len(t) /\ SubSeq(t, 1, Len(s)) = s

\* The j-th instruction of an extract call: continue, loop, continue, ...
InstructionAt(k, j) == IF j % 2 = 1 THEN CONTINUE_PROMPT(k) ELSE LOOP_PROMPT(k)

\* h starts with the extraction prompt as a user turn, and then assistant
\* turns alternate with user turns that are the instructions in their order.
Alternating(x, h) ==
    \A p \in 1..Len(h) :
        IF p = 1 THEN h[p] = User(generate_prompt(kind[x], text[x]))
        ELSE IF p % 2 = 0 THEN h[p].role = "assistant"
        ELSE h[p] = User(InstructionAt(kind[x], (p - 1) \div 2))

\* C17: the history of an extract call only grows and alternates between
\* user and assistant turns; the k-th chat call receives 2k-1 turns, the
\* first being the extraction prompt and the last a user turn, namely what
\* call k-1 received, the reply to it, and the next of the instructions,
\* which are in turn the continue and the loop instruction; and the history
\* always starts with what the last call received, followed by at most the
\* reply to it.
C17_HistoryAlternates ==
    /\ [](\A x \in Extractors :
             /\ Alternating(x, messages[x])
             /\ IsPrefix(sent[x], messages[x])
             /\ ncalls[x] = 0 => sent[x] = <<>> /\ messages[x] = <<>>
             /\ ncalls[x] >= 1 =>
                   /\ Len(sent[x]) = 2 * ncalls[x] - 1
                   /\ sent[x][1] = User(generate_prompt(kind[x], text[x]))
                   /\ sent[x][Len(sent[x])].role = "user"
                   /\ Len(messages[x]) - Len(sent[x]) \in {0, 1}
                   /\ Len(messages[x]) = Len(sent[x]) <=> pc[x] \in {"initial", "ask", "check"})
    /\ [][\A x \in Extractors :
             /\ IsPrefix(messages[x], messages'[x])
             /\ ncalls'[x] /= ncalls[x] =>
                   /\ ncalls'[x] = ncalls[x] + 1
                   /\ sent'[x] = messages'[x]
                   /\ ncalls[x] >= 1 =>
                         /\ Len(messages[x]) = Len(sent[x])
                         /\ Len(sent'[x]) = Len(sent[x]) + 2
                         /\ IsPrefix(sent[x], sent'[x])
                         /\ sent'[x][Len(sent[x]) + 1].role = "assistant"
                         /\ sent'[x][Len(sent[x]) + 2] =
                               User(InstructionAt(kind[x], ncalls[x]))]_vars

\* The fifth call has been made and waits for its reply.
C17_Witness ==
    \E x \in Extractors :
        /\ ncalls[x] = 5
        /\ pc[x] = "check"
        /\ Len(sent[x]) = 9
        /\ sent[x][3] = User(CONTINUE_PROMPT(kind[x]))
        /\ sent[x][5] = User(LOOP_PROMPT(kind[x]))
        /\ sent[x][7] = User(CONTINUE_PROMPT(kind[x]))
        /\ sent[x][9] = User(LOOP_PROMPT(kind[x]))
        /\ sent[x][8] = Assistant(WellFormed(kind[x]))



(***************************************************************************)
(* FieldSpec: one entity, one relationship and one claim record whose      *)
(* fields are three raw texts with whitespace of every kind, given to      *)
(* either parser                                                           *)
(***************************************************************************)

\* Raw field texts: empty, blank, with whitespace at the ends, with runs of
\* spaces, tabs and newlines inside, and NONE with whitespace around it.
FieldPool ==
    {<<>>, <<" ">>, <<"\n", "\t", " ">>, <<"a">>, <<" ", "a", "\t">>,
     <<"a", " ", " ", "b">>, <<"a", "\n", "\t", "b", " ", "c">>,
     <<" ", "N", "o", "N", "e", "\n">>}

FieldsPerRecord == 3

\* The three raw fields as an entity, a relationship and a claim record;
\* the claim record takes them in turn for its eight fields.
FieldRecords(f) ==
    <<Tuple(<<Quoted(ENTITY), f[1], f[2], f[3]>>),
      Tuple(<<Quoted(RELATIONSHIP), f[1], f[2], f[3], <<"2">>>>),
      Tuple(<<f[1], f[2], f[3], f[1], f[2], f[3], f[1], f[2]>>)>>

FieldInit ==
    /\ LoopIdle
    /\ ClientReady
    /\ DedupIdle
    /\ hashfn = [p \in HashDomain(LoopDescriptions) |-> 0]
    /\ chunks \in [1..FieldsPerRecord -> FieldPool]
    /\ separator = PlainStyle
    /\ llm_output = Join(FieldRecords(chunks), separator.between)
    /\ parsed = "no"
    /\ graph_out = NoGraph
    /\ claims_out = NoClaims

FieldNext == ParseGraph \/ ParseClaims

FieldSpec == FieldInit /\ [][FieldNext]_vars

\* s has no whitespace at its ends, and inside only single spaces.
IsNormalized(s) ==
    \A i \in 1..Len(s) :
        s[i] \in Whitespace =>
            /\ s[i] = " "
            /\ 1 < i /\ i < Len(s)
            /\ s[i + 1] \notin Whitespace

OnlyWhitespace(s) == \A i \in 1..Len(s) : s[i] \in Whitespace

Letters(s) == SelectSeq(s, LAMBDA c : c \notin Whitespace)

\* field is what is stored for the raw text: normalized, a fixed point of
\* clean_str, with the characters of raw that are no whitespace, and empty
\* when raw has no others.
StoredFor(field, raw) ==
    /\ IsNormalized(field)
    /\ clean_str(field) = field
    /\ Letters(field) = Letters(raw)
    /\ OnlyWhitespace(raw) => field = <<>>

\* C18: every string field of the Entity, the Relationship and the Claim
\* that the parsers make is whitespace-normalized and unchanged by
\* clean_str, and a field that was empty or blank is the empty string.
C18_NormalizedFields ==
    /\ parsed = "graph" =>
          /\ Len(graph_out.entities) = 1 /\ Len(graph_out.relationships) = 1
          /\ \A e \in {graph_out.entities[1]} :
                /\ StoredFor(e.name, chunks[1])
                /\ StoredFor(e.type, chunks[2])
                /\ StoredFor(e.description, chunks[3])
          /\ \A r \in {graph_out.relationships[1]} :
                /\ StoredFor(r.source, chunks[1])
                /\ StoredFor(r.target, chunks[2])
                /\ StoredFor(r.description, chunks[3])
    /\ parsed = "claims" =>
          /\ Len(claims_out.claims) = 1
          /\ \A c \in {claims_out.claims[1]} :
                /\ StoredFor(c.subject, chunks[1])
                /\ c.object /= None => StoredFor(c.object, chunks[2])
                /\ StoredFor(c.type, chunks[3])
                /\ StoredFor(c.status, chunks[1])
                /\ c.start_date /= None => StoredFor(c.start_date, chunks[2])
                /\ c.end_date /= None => StoredFor(c.end_date, chunks[3])
                /\ StoredFor(c.description, chunks[1])
                /\ StoredFor(c.source_text, chunks[2])

\* A claim whose subject had tabs and newlines inside, whose object was
\* blank and whose type had whitespace at its ends.
C18_Witness ==
    /\ parsed = "claims"
    /\ chunks = <<<<"a", "\n", "\t", "b", " ", "c">>, <<"\n", "\t", " ">>, <<" ", "a", "\t">>>>
    /\ Len(claims_out.claims) = 1
    /\ claims_out.claims[1].subject = <<"a", " ", "b", " ", "c">>
    /\ claims_out.claims[1].object = <<>>
    /\ claims_out.claims[1].type = <<"a">>
    /\ claims_out.claims[1].end_date = <<"a">>



(***************************************************************************)
(* PairSpec: two extractions, on one extractor or on two, each with its    *)
(* own text and its own replies, interleaved at every chat call            *)
(***************************************************************************)

PairGleanings == 1

\* What marks the replies to extraction x.
Tag(x) == IF x = 1 THEN <<"1">> ELSE <<"2">>

PairRecord(k, name) ==
    IF k = GraphKind THEN EntityText(name, <<"T">>, <<"d">>)
                     ELSE ClaimText(name, <<"O">>, <<"T">>, <<"d">>)

\* The replies to extraction x: to the extraction and the continue prompt
\* a record named after x or no record, to the loop prompt no or yes.
PairDataReplies(x) == {PairRecord(kind[x], Tag(x)), Tag(x)}

PairCheckReplies(x) == {No \o Tag(x), Yes \o Tag(x)}

PairInit ==
    /\ kind \in {[x \in Extractors |-> IF x = 1 THEN GraphKind ELSE k] :
                    k \in {GraphKind, ClaimsKind}}
    /\ max_gleanings \in [Extractors -> 0..PairGleanings]
    /\ text = [x \in Extractors |-> IF x = 1 THEN "text 1" ELSE "text 2"]
    /\ pc = [x \in Extractors |-> "idle"]
    /\ messages = [x \in Extractors |-> <<>>]
    /\ iteration = [x \in Extractors |-> 0]
    /\ entities = [x \in Extractors |-> <<>>]
    /\ relationships = [x \in Extractors |-> <<>>]
    /\ claims = [x \in Extractors |-> <<>>]
    /\ ncalls = [x \in Extractors |-> 0]
    /\ sent = [x \in Extractors |-> <<>>]
    /\ hashfn = [p \in HashDomain(LoopDescriptions) |-> 0]
    /\ ParserIdle
    /\ DedupIdle
    /\ ClientReady

PairStep(x) ==
    \/ Extract(x)
    \/ \E r \in PairDataReplies(x) : Initial(x, r)
    \/ \E r \in PairDataReplies(x) : GleanAsk(x, r)
    \/ \E r \in PairCheckReplies(x) : GleanCheck(x, r)

PairNext == \E x \in Extractors : PairStep(x)

PairSpec == PairInit /\ [][PairNext]_vars

\* All that extraction x holds.
Local(x) ==
    <<pc[x], messages[x], sent[x], ncalls[x], iteration[x],
      entities[x], relationships[x], claims[x]>>

\* The records of the INITIAL and GLEAN_ASK replies in the history of x
\* from position p on, as a run of x alone gathers them.
RECURSIVE AloneGathered(_, _)
AloneGathered(x, p) ==
    IF p > Len(messages[x])
    THEN [entities |-> <<>>, relationships |-> <<>>, claims |-> <<>>]
    ELSE IF p = 2 \/ p % 4 = 0
         THEN LET got  == ParseReply(kind[x], messages[x][p].content)
                  rest == AloneGathered(x, p + 2)
              IN  [entities |-> got.entities \o rest.entities,
                   relationships |-> got.relationships \o rest.relationships,
                   claims |-> got.claims \o rest.claims]
         ELSE AloneGathered(x, p + 2)

\* Where a run of x alone stands after the turns of its history.
AlonePc(x) ==
    IF Len(messages[x]) = 0 THEN "idle"
    ELSE IF Len(messages[x]) % 2 = 0 THEN "done"
    ELSE IF Len(messages[x]) = 1 THEN "initial"
    ELSE IF Len(messages[x]) % 4 = 3 THEN "ask"
    ELSE "check"

\* The turns and the records of extraction x are its own.
OwnTurnsAndRecords(x) ==
    /\ \A p \in 1..Len(messages[x]) :
          messages[x][p].role = "assistant" =>
              messages[x][p].content \in PairDataReplies(x) \cup PairCheckReplies(x)
    /\ \A i \in 1..Len(entities[x]) : entities[x][i].name = Tag(x)
    /\ \A i \in 1..Len(claims[x]) : claims[x][i].subject = Tag(x)
    /\ relationships[x] = <<>>

\* C19: two extractions interleaved at every chat call share nothing: a
\* step of one leaves all that the other holds as it was, and at any
\* moment each is where a run of its own alone would be after the same
\* replies, with its own prompt and instructions in its history, the
\* records of its own INITIAL and GLEAN_ASK replies in its lists
\* (deduplicated once it has returned), and no turn or record of the other.
C19_NoSharedState ==
    /\ [](\A x \in Extractors :
             /\ Alternating(x, messages[x])
             /\ pc[x] = AlonePc(x)
             /\ pc[x] \in {"initial", "ask", "check"} => sent[x] = messages[x]
             /\ pc[x] = "done" =>
                   /\ sent[x] = SubSeq(messages[x], 1, Len(messages[x]) - 1)
                   /\ InstructionsSent(x) =
                         ExpectedInstructions(kind[x], max_gleanings[x],
                                              CheckRepliesSent(x), 0)
                   /\ entities[x] = DedupEntities(AloneGathered(x, 2).entities)
                   /\ relationships[x] =
                         DedupRelationships(AloneGathered(x, 2).relationships)
                   /\ claims[x] = DedupClaims(AloneGathered(x, 2).claims, hashfn)
             /\ pc[x] \in {"ask", "check"} =>
                   /\ entities[x] = AloneGathered(x, 2).entities
                   /\ relationships[x] = AloneGathered(x, 2).relationships
                   /\ claims[x] = AloneGathered(x, 2).claims
             /\ OwnTurnsAndRecords(x))
    /\ [][\A x, y \in Extractors :
             (x /= y /\ Local(x)' /= Local(x)) => Local(y)' = Local(y)]_vars

\* Both extractions wait for a reply at once, the first for that to its
\* loop instruction with two records gathered, the second, of the other
\* kind, for that to its continue instruction with one.
C19_Witness ==
    /\ pc[1] = "check" /\ pc[2] = "ask"
    /\ kind[2] = ClaimsKind
    /\ Len(entities[1]) = 2
    /\ Len(claims[2]) = 1
    /\ ncalls[1] = 3 /\ ncalls[2] = 2


\* The iterations that extraction x has entered: the continue instructions
\* in its history.
IterationsEntered(x) ==
    Cardinality({p \in 1..Len(messages[x]) :
                    messages[x][p] = User(CONTINUE_PROMPT(kind[x]))})

\* C21: every iteration entered makes its ask call and its check call: an
\* extraction that has returned made 1 + 2k calls, k the iterations it
\* entered; while it waits for a GLEAN_ASK reply it has made 2k calls and
\* while it waits for a GLEAN_CHECK reply 2k + 1; with max_gleanings = N > 0
\* and no GLEAN_CHECK reply starting with "N" it made 1 + 2N; the loop
\* instruction is sent on the iteration that reaches max_gleanings too,
\* and extract then returns whatever the reply is.
C21_OddNumberOfCalls ==
    /\ [](\A x \in Extractors :
             /\ iteration[x] = IterationsEntered(x)
             /\ pc[x] = "ask" => ncalls[x] = 2 * IterationsEntered(x)
             /\ pc[x] = "check" => ncalls[x] = 2 * IterationsEntered(x) + 1
             /\ pc[x] = "done" =>
                   /\ ncalls[x] = 1 + 2 * IterationsEntered(x)
                   /\ ncalls[x] % 2 = 1
                   /\ Cardinality(CheckReplies(x)) = IterationsEntered(x)
                   /\ Cardinality(AskReplies(x)) = IterationsEntered(x)
                   /\ (max_gleanings[x] > 0 /\ NoMoreReplies(x) = {}) =>
                         ncalls[x] = 1 + 2 * max_gleanings[x])
    /\ [][\A x \in Extractors :
             /\ (pc[x] = "ask" /\ pc'[x] /= "ask") =>
                   pc'[x] = "check" /\ Sends(x, LOOP_PROMPT(kind[x]))
             /\ (pc[x] = "check" /\ pc'[x] /= "check"
                    /\ iteration[x] = max_gleanings[x]) =>
                   /\ Finishes(x)
                   /\ FirstOccurrences(entities'[x], entities[x], NameOf)
                   /\ FirstOccurrences(claims'[x], claims[x], HashedKey)]_vars

\* max_gleanings = 2 and both GLEAN_CHECK replies were "Yes": five calls,
\* the fifth on the iteration that was the last anyway.
C21_Witness ==
    \E x \in Extractors :
        /\ max_gleanings[x] = 2
        /\ pc[x] = "done"
        /\ ncalls[x] = 5
        /\ iteration[x] = 2
        /\ messages[x][6] = Assistant(Yes)
        /\ messages[x][9] = User(LOOP_PROMPT(kind[x]))
        /\ messages[x][10] = Assistant(Yes)


\* The model name matches a prefix of the table of providers.
Matched == ProviderOf(model) /= None

\* The variable of the provider that the model name matches.
OwnVariable == environ[EnvVarOf(ProviderOf(model))]

\* C22: with no api_key argument, or an empty one, a model name that
\* matches a provider gets the variable of that provider and no other:
\* construction raises when that variable is unset or empty, whatever the
\* other variables hold, and takes its value when there is one; the first
\* variable that holds a key is taken only for a model name that matches
\* no provider.
C22_FallbackOnlyWhenUnmatched ==
    (client.state /= "none" /\ api_key \in {None, <<>>}) =>
        /\ (Matched /\ ~NonEmpty(OwnVariable)) => client.state = "raised"
        /\ (Matched /\ NonEmpty(OwnVariable)) =>
              client.state = "constructed" /\ client.api_key = OwnVariable
        /\ (client.state = "constructed" /\ Matched) =>
              \A v \in EnvVars :
                  client.api_key = environ[v] => v = EnvVarOf(ProviderOf(model))
        /\ ~Matched =>
              IF NonEmpty(AnyAvailable)
              THEN client.state = "constructed" /\ client.api_key = AnyAvailable
              ELSE client.state = "raised"

\* "Gemini/f" matches gemini once lower-cased; the api_key argument is
\* empty and so is GEMINI_API_KEY: ValueError, although the variables of
\* both other providers hold a key.
C22_Witness ==
    /\ client.state = "raised"
    /\ model = <<"G", "e", "m", "i", "n", "i", "/", "f">>
    /\ client.provider = GEMINI
    /\ api_key = <<>>
    /\ environ["GEMINI_API_KEY"] = <<>>
    /\ environ["OPENAI_API_KEY"] = <<"k", "o">>
    /\ environ["ANTHROPIC_API_KEY"] = <<"k", "a">>

=============================================================================
